---- MODULE Spec2Model ----
(***************************************************************************)
(* Recipe Box service (app/main.py, app/models.py): the in-memory store,   *)
(* the password hasher, bearer-token resolution and the request handlers.  *)
(*                                                                         *)
(* Strings are sequences of one-character strings, so that str.strip,      *)
(* str.lower, str.split and base64 are computed character by character.    *)
(* Bytes are sequences of integers 0..255.                                 *)
(***************************************************************************)
EXTENDS Integers, Sequences, FiniteSets, TLC

VARIABLES
    users,            \* InMemoryRecipeStore._users: id -> record
    users_by_email,   \* InMemoryRecipeStore._users_by_email: email -> id
    sessions,         \* InMemoryRecipeStore._sessions: token -> user id
    user_seq,         \* next value of InMemoryRecipeStore._user_seq
    ingredients,      \* InMemoryRecipeStore._ingredients: id -> Ingredient
    ingredients_by_name, \* InMemoryRecipeStore._ingredients_by_name
    ingredient_seq,   \* next value of InMemoryRecipeStore._ingredient_seq
    recipes,          \* InMemoryRecipeStore._recipes: id -> Recipe
    recipe_seq,       \* next value of InMemoryRecipeStore._recipe_seq
    issued,           \* every token generate_token has returned so far
    retired,          \* tokens that were active when a reset wiped the sessions
    threads,          \* the request threads running create_user step by step
    call,             \* a direct call of a pure function: arguments and result
    redis,            \* the key-value service behind RedisSessionBackend
    clock,            \* the service's time in seconds
    backends,         \* the RedisSessionBackend objects constructed so far
    last_store        \* per key, the most recent store_token: when, what, which TTL

vars == <<users, users_by_email, sessions, user_seq, ingredients,
          ingredients_by_name, ingredient_seq, recipes, recipe_seq,
          issued, retired, threads, call, redis, clock, backends, last_store>>

(***************************************************************************)
(* Characters and strings                                                  *)
(***************************************************************************)

\* The ASCII characters the model's strings are made of, with their codes.
UpperChars ==
    << "A", "B", "C", "D", "E", "F", "G", "H", "I", "J", "K", "L", "M",
       "N", "O", "P", "Q", "R", "S", "T", "U", "V", "W", "X", "Y", "Z" >>

LowerChars ==
    << "a", "b", "c", "d", "e", "f", "g", "h", "i", "j", "k", "l", "m",
       "n", "o", "p", "q", "r", "s", "t", "u", "v", "w", "x", "y", "z" >>

DigitChars == << "0", "1", "2", "3", "4", "5", "6", "7", "8", "9" >>

PunctChars == << " ", "!", "+", "-", ".", "/", ":", "=", "@", "_" >>

PunctCodes == << 32, 33, 43, 45, 46, 47, 58, 61, 64, 95 >>

Range(f) == {f[i] : i \in DOMAIN f}

IndexOf(seq, c) == CHOOSE i \in 1..Len(seq) : seq[i] = c

UpperSet == Range(UpperChars)

LowerSet == Range(LowerChars)

DigitSet == Range(DigitChars)

AsciiSet == UpperSet \cup LowerSet \cup DigitSet \cup Range(PunctChars)

\* ord(c) of an ASCII character.
Ord ==
    [c \in AsciiSet |->
        IF c \in UpperSet THEN 64 + IndexOf(UpperChars, c)
        ELSE IF c \in LowerSet THEN 96 + IndexOf(LowerChars, c)
        ELSE IF c \in DigitSet THEN 47 + IndexOf(DigitChars, c)
        ELSE PunctCodes[IndexOf(PunctChars, c)]]

\* Characters str.strip() removes: the space and the tab.
Whitespace == {" ", "TAB"}

\* A character outside ASCII, as a request body or a stored digest may carry.
NonAsciiChar == "U+00E9"

\* str.isalpha() and str.isdigit() of one character.
IsAlpha(c) == c \in UpperSet \/ c \in LowerSet

IsDigit(c) == c \in DigitSet

\* The lower-case letter of each upper-case letter.
ToLower == [c \in UpperSet |-> LowerChars[IndexOf(UpperChars, c)]]

\* str.lower() of one character: A-Z move to a-z, everything else stays.
LowerChar(c) == IF c \in UpperSet THEN ToLower[c] ELSE c

\* str.lower()
Lower(s) == [i \in 1..Len(s) |-> LowerChar(s[i])]

\* str.casefold(); on the ASCII names of the model it is lower().
Casefold(s) == [i \in 1..Len(s) |-> LowerChar(s[i])]

RECURSIVE LStrip(_)
LStrip(s) == IF s # <<>> /\ Head(s) \in Whitespace THEN LStrip(Tail(s)) ELSE s

RECURSIVE RStrip(_)
RStrip(s) ==
    IF s # <<>> /\ s[Len(s)] \in Whitespace
        THEN RStrip(SubSeq(s, 1, Len(s) - 1))
        ELSE s

\* str.strip()
Strip(s) == RStrip(LStrip(s))

\* c in s
Contains(s, c) == \E i \in 1..Len(s) : s[i] = c

\* The index of the first c in s, 0 when there is none (str.find + 1).
Find(s, c) ==
    IF Contains(s, c)
        THEN CHOOSE i \in 1..Len(s) : s[i] = c /\ \A j \in 1..(i - 1) : s[j] # c
        ELSE 0

\* s.split(sep, 1): one piece when sep is absent, else the text before and
\* the text after the first sep.
Split1(s, sep) ==
    LET k == Find(s, sep) IN
    IF k = 0 THEN <<s>>
    ELSE <<SubSeq(s, 1, k - 1), SubSeq(s, k + 1, Len(s))>>

\* str.encode("utf-8") of an ASCII string.
EncodeUtf8(s) == [i \in 1..Len(s) |-> Ord[s[i]]]

(***************************************************************************)
(* base64 (base64.b64encode, base64.b64decode with validate=False)         *)
(***************************************************************************)

\* The base64 alphabet: A-Z, a-z, 0-9, "+", "/".
B64Chars == UpperChars \o LowerChars \o DigitChars \o << "+", "/" >>

B64Set == Range(B64Chars)

\* The 6-bit value of a base64 character.
B64Val == [c \in B64Set |-> IndexOf(B64Chars, c) - 1]

B64Pad == "="

\* The error of a failed decode (binascii.Error and the ASCII check of str input:
\* ValueError are both ValueError).
RAISE == "raise"

RECURSIVE B64EncodeFrom(_, _)
B64EncodeFrom(b, i) ==
    LET n == Len(b) - i + 1 IN
    IF n <= 0 THEN <<>>
    ELSE IF n = 1 THEN
        << B64Chars[(b[i] \div 4) + 1], B64Chars[((b[i] % 4) * 16) + 1], B64Pad, B64Pad >>
    ELSE IF n = 2 THEN
        << B64Chars[(b[i] \div 4) + 1],
           B64Chars[((b[i] % 4) * 16 + (b[i + 1] \div 16)) + 1],
           B64Chars[((b[i + 1] % 16) * 4) + 1], B64Pad >>
    ELSE
        << B64Chars[(b[i] \div 4) + 1],
           B64Chars[((b[i] % 4) * 16 + (b[i + 1] \div 16)) + 1],
           B64Chars[((b[i + 1] % 16) * 4 + (b[i + 2] \div 64)) + 1],
           B64Chars[(b[i + 2] % 64) + 1] >> \o B64EncodeFrom(b, i + 3)

\* base64.b64encode(b).decode()
B64Encode(b) == B64EncodeFrom(b, 1)

\* binascii.a2b_base64 in its lenient mode, from character i on: quad is the
\* position in the current group of four, left the bits not yet emitted,
\* pads the '=' seen since the last data character, out the bytes so far.
\* Characters outside the alphabet are skipped; a completed pad sequence
\* ends the decode; input ending inside a group is an error.
RECURSIVE B64DecodeFrom(_, _, _, _, _, _)
B64DecodeFrom(s, i, quad, left, pads, out) ==
    IF i > Len(s) THEN (IF quad # 0 THEN RAISE ELSE out)
    ELSE IF s[i] = B64Pad THEN
        IF quad >= 2 /\ quad + pads + 1 >= 4 THEN out
        ELSE B64DecodeFrom(s, i + 1, quad, left, IF quad >= 2 THEN pads + 1 ELSE pads, out)
    ELSE IF s[i] \notin B64Set THEN B64DecodeFrom(s, i + 1, quad, left, pads, out)
    ELSE LET v == B64Val[s[i]] IN
        CASE quad = 0 -> B64DecodeFrom(s, i + 1, 1, v, 0, out)
          [] quad = 1 -> B64DecodeFrom(s, i + 1, 2, v % 16, 0, Append(out, left * 4 + (v \div 16)))
          [] quad = 2 -> B64DecodeFrom(s, i + 1, 3, v % 4, 0, Append(out, left * 16 + (v \div 4)))
          [] OTHER    -> B64DecodeFrom(s, i + 1, 0, 0, 0, Append(out, left * 64 + v))

\* base64.b64decode(s) of a str: a non-ASCII character raises ValueError
\* before the decode; otherwise the lenient decode.
B64Decode(s) ==
    IF \E i \in 1..Len(s) : s[i] = NonAsciiChar THEN RAISE
    ELSE B64DecodeFrom(s, 1, 0, 0, 0, <<>>)

(***************************************************************************)
(* Password hasher (main.py: hash_password, verify_password)               *)
(***************************************************************************)

PASSWORD_ITERATIONS == 120000

\* secrets.token_bytes(16): the number of salt bytes.
SALT_BYTES == 16

\* The digest size of SHA-256 in bytes.
SHA256_BYTES == 32

RECURSIVE Sum(_, _)
Sum(b, i) == IF i > Len(b) THEN 0 ELSE b[i] + Sum(b, i + 1)

RECURSIVE WeightedSum(_, _)
WeightedSum(b, i) == IF i > Len(b) THEN 0 ELSE i * b[i] + WeightedSum(b, i + 1)

\* hashlib.pbkdf2_hmac("sha256", password, salt, iterations): a derived key
\* of 32 bytes that password, salt and iteration count determine. The
\* stand-in mixes every byte of both inputs with its position, so that the
\* passwords and salts of the model give pairwise different keys.
pbkdf2_hmac(password, salt, iterations) ==
    LET mix == [pw |-> WeightedSum(password, 1), ps |-> Sum(password, 1),
                sw |-> WeightedSum(salt, 1), ss |-> Sum(salt, 1)]
    IN [i \in 1..SHA256_BYTES |->
            (mix.pw + i * mix.ps + 7 * (mix.sw + 2 * i * mix.ss)
                + 13 * Len(password) + Len(salt) + i * iterations) % 256]

\* hash_password that salts every password with the same sixteen bytes.
hash_password_fixed_salt(password, salt) ==
    LET fixed == [i \in 1..SALT_BYTES |-> 0]
        digest == pbkdf2_hmac(EncodeUtf8(password), fixed, PASSWORD_ITERATIONS)
    IN B64Encode(fixed) \o <<":">> \o B64Encode(digest)

\* hash_password with the salt secrets.token_bytes drew.
hash_password(password, salt) ==
    LET digest == pbkdf2_hmac(EncodeUtf8(password), salt, PASSWORD_ITERATIONS)
    IN B64Encode(salt) \o <<":">> \o B64Encode(digest)

\* hmac.compare_digest(a, b) on bytes: equality, in constant time.
compare_digest(a, b) == a = b

\* What a call returns or raises: value is the return value when raises is
\* FALSE.
Returns(v) == [raises |-> FALSE, value |-> v]

Raises == [raises |-> TRUE, value |-> FALSE]

\* verify_password deriving the key with an iteration count other than the one
\* hash_password used.
verify_password_other_iterations(password, stored) ==
    LET parts == Split1(stored, ":") IN
    IF Len(parts) # 2 THEN Returns(FALSE)
    ELSE LET salt == B64Decode(parts[1]) IN
         IF salt = RAISE THEN Raises
         ELSE LET expected == B64Decode(parts[2]) IN
              IF expected = RAISE THEN Raises
              ELSE Returns(compare_digest(
                       pbkdf2_hmac(EncodeUtf8(password), salt, PASSWORD_ITERATIONS - 20000),
                       expected))

\* verify_password: returns False when stored has no ":" (the ValueError of
\* the unpacking is caught); b64decode runs outside the try, so its error
\* leaves the function; else the comparison of the two derived keys.
verify_password(password, stored) ==
    LET parts == Split1(stored, ":") IN
    IF Len(parts) # 2 THEN Returns(FALSE)
    ELSE LET salt == B64Decode(parts[1]) IN
         IF salt = RAISE THEN Raises
         ELSE LET expected == B64Decode(parts[2]) IN
              IF expected = RAISE THEN Raises
              ELSE Returns(compare_digest(
                       pbkdf2_hmac(EncodeUtf8(password), salt, PASSWORD_ITERATIONS),
                       expected))

(***************************************************************************)
(* Dictionaries, optional values, responses                                *)
(***************************************************************************)

\* A dict is a function; d[k] = v adds or overwrites, del d[k] removes.
EmptyDict == <<>>

Put(d, k, v) == [x \in (DOMAIN d) \cup {k} |-> IF x = k THEN v ELSE d[x]]

Del(d, k) == [x \in (DOMAIN d) \ {k} |-> d[x]]

\* Optional[T]: <<>> is None, <<v>> is the value v.
None == <<>>

Some(v) == <<v>>

\* The store's fields as one value, for the handlers to read and return.
Store ==
    [users |-> users, users_by_email |-> users_by_email, sessions |-> sessions,
     user_seq |-> user_seq, ingredients |-> ingredients,
     ingredients_by_name |-> ingredients_by_name, ingredient_seq |-> ingredient_seq,
     recipes |-> recipes, recipe_seq |-> recipe_seq]

\* errors.problem: the error document, without its correlation_id.
problem(status, detail) == [status |-> status, detail |-> detail, body |-> None]

\* A successful response with its body.
Reply(status, body) == [status |-> status, detail |-> "", body |-> body]

\* raise HTTPException(...) inside a store method: the store is as it was.
Raise(S, status, detail) == [st |-> S, resp |-> problem(status, detail)]

\* general_exception_handler: any other exception is masked.
general_exception_handler(S) ==
    Raise(S, 500, "An unexpected error occurred. Please contact support.")

(***************************************************************************)
(* Request models (models.py)                                              *)
(***************************************************************************)

\* A str field of a StrictModel: str_strip_whitespace, then the length bounds.
StrField(raw, min_length, max_length) ==
    LET v == Strip(raw) IN
    [ok |-> Len(v) >= min_length /\ Len(v) <= max_length, value |-> v]

\* str.partition("@"): the text before and after the first "@".
PartitionAt(s) ==
    LET k == Find(s, "@") IN
    IF k = 0 THEN [before |-> s, after |-> <<>>]
    ELSE [before |-> SubSeq(s, 1, k - 1), after |-> SubSeq(s, k + 1, Len(s))]

\* UserBase.validate_email
validate_email(value) ==
    LET email == Lower(Strip(value)) IN
    IF ~Contains(email, "@") \/ Head(email) = "@" \/ email[Len(email)] = "@"
        THEN [ok |-> FALSE, value |-> email]
    ELSE LET p == PartitionAt(email) IN
         IF ~Contains(p.after, ".") \/ p.before = <<>> \/ p.after = <<>>
             THEN [ok |-> FALSE, value |-> email]
             ELSE [ok |-> TRUE, value |-> email]

\* UserBase.email: the field, then its validator.
EmailField(raw) ==
    LET f == StrField(raw, 5, 255) IN
    IF ~f.ok THEN f ELSE validate_email(f.value)

\* UserRegister.validate_password
validate_password(value) ==
    (\E i \in 1..Len(value) : IsAlpha(value[i])) /\ (\E i \in 1..Len(value) : IsDigit(value[i]))

\* The detail of validation_exception_handler: the failing fields, joined.
ValidationDetail(email_ok, password_ok) ==
    IF ~email_ok /\ ~password_ok THEN "body.email: invalid; body.password: invalid"
    ELSE IF ~email_ok THEN "body.email: invalid"
    ELSE "body.password: invalid"

\* UserRegister(**body)
UserRegister(raw) ==
    LET e == EmailField(raw.email)
        f == StrField(raw.password, 8, 128)
        pw_ok == f.ok /\ validate_password(f.value)
    IN [ok |-> e.ok /\ pw_ok,
        detail |-> ValidationDetail(e.ok, pw_ok),
        value |-> [email |-> e.value, password |-> f.value]]

\* UserLogin(**body)
UserLogin(raw) ==
    LET e == EmailField(raw.email)
        f == StrField(raw.password, 8, 128)
    IN [ok |-> e.ok /\ f.ok,
        detail |-> ValidationDetail(e.ok, f.ok),
        value |-> [email |-> e.value, password |-> f.value]]

\* UserPublic(id=..., email=...): the email field runs its validator again.
UserPublic(id, email) == [id |-> id, email |-> validate_email(Strip(email)).value]

(***************************************************************************)
(* InMemoryRecipeStore: users and sessions                                 *)
(***************************************************************************)

\* _normalize_name that trims and keeps the letter case.
_normalize_name_cased(name) == Strip(name)

_normalize_name(name) == Casefold(Strip(name))

_normalize_email(email) == Lower(Strip(email))

\* create_user without the lookup of the email index.
create_user_unchecked(S, payload, salt) ==
    LET email == _normalize_email(payload.email)
        user_id == S.user_seq
        record == [id |-> user_id, email |-> email,
                   password_hash |-> hash_password(payload.password, salt)]
    IN [st |-> [S EXCEPT !.user_seq = user_id + 1,
                         !.users = Put(@, user_id, record),
                         !.users_by_email = Put(@, email, user_id)],
        resp |-> Reply(201, UserPublic(user_id, email))]

\* create_user that files the email under the id the counter holds after
\* the draw.
create_user_misfiled(S, payload, salt) ==
    LET email == _normalize_email(payload.email) IN
    IF email \in DOMAIN S.users_by_email
        THEN Raise(S, 409, "User already exists")
    ELSE LET user_id == S.user_seq
             record == [id |-> user_id, email |-> email,
                        password_hash |-> hash_password(payload.password, salt)]
         IN [st |-> [S EXCEPT !.user_seq = user_id + 1,
                              !.users = Put(@, user_id, record),
                              !.users_by_email = Put(@, email, user_id + 1)],
             resp |-> Reply(201, UserPublic(user_id, email))]

\* InMemoryRecipeStore.create_user, with the salt hash_password draws.
create_user(S, payload, salt) ==
    LET email == _normalize_email(payload.email) IN
    IF email \in DOMAIN S.users_by_email
        THEN Raise(S, 409, "User already exists")
    ELSE LET user_id == S.user_seq
             record == [id |-> user_id, email |-> email,
                        password_hash |-> hash_password(payload.password, salt)]
         IN [st |-> [S EXCEPT !.user_seq = user_id + 1,
                              !.users = Put(@, user_id, record),
                              !.users_by_email = Put(@, email, user_id)],
             resp |-> Reply(201, UserPublic(user_id, email))]

\* authenticate_user answering an unknown email with its own error.
authenticate_user_telling(S, payload, token) ==
    LET email == _normalize_email(payload.email) IN
    IF email \notin DOMAIN S.users_by_email \/ S.users_by_email[email] = 0
        THEN Raise(S, 404, "User not found")
    ELSE LET user_id == S.users_by_email[email] IN
         IF user_id \notin DOMAIN S.users THEN general_exception_handler(S)
         ELSE LET v == verify_password(payload.password, S.users[user_id].password_hash) IN
              IF v.raises THEN general_exception_handler(S)
              ELSE IF ~v.value THEN Raise(S, 401, "Invalid credentials")
              ELSE [st |-> [S EXCEPT !.sessions = Put(@, token, user_id)],
                    resp |-> Reply(200, [access_token |-> token, token_type |-> "bearer"])]

\* authenticate_user that ends the user's earlier sessions when it opens one.
authenticate_user_single_session(S, payload, token) ==
    LET email == _normalize_email(payload.email) IN
    IF email \notin DOMAIN S.users_by_email \/ S.users_by_email[email] = 0
        THEN Raise(S, 401, "Invalid credentials")
    ELSE LET user_id == S.users_by_email[email] IN
         IF user_id \notin DOMAIN S.users THEN general_exception_handler(S)
         ELSE LET v == verify_password(payload.password, S.users[user_id].password_hash) IN
              IF v.raises THEN general_exception_handler(S)
              ELSE IF ~v.value THEN Raise(S, 401, "Invalid credentials")
              ELSE [st |-> [S EXCEPT !.sessions =
                               [t \in {u \in DOMAIN S.sessions : S.sessions[u] # user_id}
                                        \cup {token} |->
                                    IF t = token THEN user_id ELSE S.sessions[t]]],
                    resp |-> Reply(200, [access_token |-> token, token_type |-> "bearer"])]

\* InMemoryRecipeStore.authenticate_user, with the token generate_token
\* returns when the credentials are right.
authenticate_user(S, payload, token) ==
    LET email == _normalize_email(payload.email) IN
    IF email \notin DOMAIN S.users_by_email \/ S.users_by_email[email] = 0
        THEN Raise(S, 401, "Invalid credentials")
    ELSE LET user_id == S.users_by_email[email] IN
         IF user_id \notin DOMAIN S.users THEN general_exception_handler(S)
         ELSE LET v == verify_password(payload.password, S.users[user_id].password_hash) IN
              IF v.raises THEN general_exception_handler(S)
              ELSE IF ~v.value THEN Raise(S, 401, "Invalid credentials")
              ELSE [st |-> [S EXCEPT !.sessions = Put(@, token, user_id)],
                    resp |-> Reply(200, [access_token |-> token, token_type |-> "bearer"])]

\* InMemoryRecipeStore.get_user
get_user(S, user_id) ==
    IF user_id \notin DOMAIN S.users
        THEN [ok |-> FALSE, resp |-> problem(404, "User not found")]
        ELSE [ok |-> TRUE,
              resp |-> Reply(200, UserPublic(S.users[user_id].id, S.users[user_id].email))]

\* InMemoryRecipeStore.get_user_by_token
get_user_by_token(S, token) ==
    IF token \notin DOMAIN S.sessions \/ S.sessions[token] = 0
        THEN [ok |-> FALSE, resp |-> problem(401, "Invalid or expired token")]
        ELSE get_user(S, S.sessions[token])

\* get_current_user that takes the token whatever the scheme.
get_current_user_any_scheme(S, credentials) ==
    IF credentials = None
        THEN [ok |-> FALSE, resp |-> problem(401, "Authorization header missing")]
    ELSE LET token == Strip(credentials[1].credentials) IN
         IF token = <<>>
             THEN [ok |-> FALSE, resp |-> problem(401, "Authorization header missing")]
             ELSE get_user_by_token(S, token)

\* get_current_user: credentials is None or the scheme and credentials that
\* HTTPBearer took from the Authorization header.
get_current_user(S, credentials) ==
    IF credentials = None \/ Lower(credentials[1].scheme) # <<"b", "e", "a", "r", "e", "r">>
        THEN [ok |-> FALSE, resp |-> problem(401, "Authorization header missing")]
    ELSE LET token == Strip(credentials[1].credentials) IN
         IF token = <<>>
             THEN [ok |-> FALSE, resp |-> problem(401, "Authorization header missing")]
             ELSE get_user_by_token(S, token)

\* reset that clears everything but the sessions.
reset_keeping_sessions(S) ==
    [users |-> EmptyDict, users_by_email |-> EmptyDict, sessions |-> S.sessions,
     user_seq |-> 1, ingredients |-> EmptyDict, ingredients_by_name |-> EmptyDict,
     ingredient_seq |-> 1, recipes |-> EmptyDict, recipe_seq |-> 1]

\* reset that clears the dicts and lets the user id counter run on.
reset_counting_on(S) ==
    [users |-> EmptyDict, users_by_email |-> EmptyDict, sessions |-> EmptyDict,
     user_seq |-> S.user_seq, ingredients |-> EmptyDict, ingredients_by_name |-> EmptyDict,
     ingredient_seq |-> 1, recipes |-> EmptyDict, recipe_seq |-> 1]

\* InMemoryRecipeStore.reset
reset(S) ==
    [users |-> EmptyDict, users_by_email |-> EmptyDict, sessions |-> EmptyDict,
     user_seq |-> 1, ingredients |-> EmptyDict, ingredients_by_name |-> EmptyDict,
     ingredient_seq |-> 1, recipes |-> EmptyDict, recipe_seq |-> 1]

(***************************************************************************)
(* Endpoints: authentication                                               *)
(***************************************************************************)

\* POST /auth/register
register_user(S, raw, salt) ==
    LET payload == UserRegister(raw) IN
    IF ~payload.ok THEN Raise(S, 422, payload.detail)
    ELSE create_user(S, payload.value, salt)

\* POST /auth/login
login_user(S, raw, token) ==
    LET payload == UserLogin(raw) IN
    IF ~payload.ok THEN Raise(S, 422, payload.detail)
    ELSE authenticate_user(S, payload.value, token)

\* GET /auth/me
read_current_user(S, credentials) ==
    [st |-> S, resp |-> get_current_user(S, credentials).resp]

(***************************************************************************)
(* Request models: ingredients and recipes                                 *)
(***************************************************************************)

\* models.ALLOWED_UNITS
ALLOWED_UNITS ==
    { <<"g">>, <<"k", "g">>, <<"m", "l">>, <<"l">>, <<"t", "s", "p">>,
      <<"t", "b", "s", "p">>, <<"p", "c", "s">> }

\* IngredientCreate(**body): name, stripped, 1..100 characters.
IngredientCreate(raw) ==
    LET f == StrField(raw.name, 1, 100) IN
    [ok |-> f.ok, detail |-> "body.name: invalid", value |-> [name |-> f.value]]

\* Ingredient(id=..., name=...)
Ingredient(id, name) == [id |-> id, name |-> Strip(name)]

\* RecipeIngredientBase: amount in (0, 999999.99], unit one of ALLOWED_UNITS.
\* Amounts are whole numbers here.
RecipeIngredientOk(ing) ==
    /\ ing.amount > 0
    /\ ing.amount * 100 <= 99999999
    /\ StrField(ing.unit, 1, 10).ok
    /\ Strip(ing.unit) \in ALLOWED_UNITS

\* RecipeIngredientCreate(**item) / RecipeIngredient(**item.model_dump())
RecipeIngredient(ing) ==
    [ingredient_id |-> ing.ingredient_id, amount |-> ing.amount, unit |-> Strip(ing.unit)]

IngredientListOk(list) ==
    Len(list) <= 100 /\ \A i \in 1..Len(list) : RecipeIngredientOk(list[i])

\* RecipeCreate(**body)
RecipeCreate(raw) ==
    LET t == StrField(raw.title, 1, 200)
        st == StrField(raw.steps, 1, 10000)
    IN [ok |-> t.ok /\ st.ok /\ IngredientListOk(raw.ingredients),
        detail |-> "body: invalid",
        value |-> [title |-> t.value, steps |-> st.value,
                   ingredients |-> [i \in 1..Len(raw.ingredients) |->
                                        RecipeIngredient(raw.ingredients[i])]]]

\* RecipeUpdate(**body): each field is optional.
RecipeUpdate(raw) ==
    LET t_ok == raw.title = None \/ StrField(raw.title[1], 1, 200).ok
        st_ok == raw.steps = None \/ StrField(raw.steps[1], 1, 10000).ok
        i_ok == raw.ingredients = None \/ IngredientListOk(raw.ingredients[1])
    IN [ok |-> t_ok /\ st_ok /\ i_ok,
        detail |-> "body: invalid",
        value |-> [title |-> IF raw.title = None THEN None ELSE Some(Strip(raw.title[1])),
                   steps |-> IF raw.steps = None THEN None ELSE Some(Strip(raw.steps[1])),
                   ingredients |->
                       IF raw.ingredients = None THEN None
                       ELSE Some([i \in 1..Len(raw.ingredients[1]) |->
                                     RecipeIngredient(raw.ingredients[1][i])])]]

\* Recipe(id=..., owner_id=..., title=..., steps=..., ingredients=...)
Recipe(id, owner_id, title, steps, ings) ==
    [id |-> id, owner_id |-> owner_id, title |-> Strip(title), steps |-> Strip(steps),
     ingredients |-> ings]

(***************************************************************************)
(* InMemoryRecipeStore: ingredients and recipes                            *)
(***************************************************************************)

\* InMemoryRecipeStore.create_ingredient
store_create_ingredient(S, payload) ==
    LET norm == _normalize_name(payload.name) IN
    IF norm \in DOMAIN S.ingredients_by_name
        THEN Raise(S, 409, "Ingredient already exists")
    ELSE LET ingredient == Ingredient(S.ingredient_seq, payload.name) IN
         [st |-> [S EXCEPT !.ingredient_seq = @ + 1,
                           !.ingredients = Put(@, ingredient.id, ingredient),
                           !.ingredients_by_name = Put(@, norm, ingredient.id)],
          resp |-> Reply(200, ingredient)]

\* _convert_recipe_ingredient without the lookup in the ingredient directory.
_convert_recipe_ingredient_unchecked(S, ing) == TRUE

\* InMemoryRecipeStore._convert_recipe_ingredient: is the ingredient known?
_convert_recipe_ingredient(S, ing) == ing.ingredient_id \in DOMAIN S.ingredients

\* The list comprehension over _convert_recipe_ingredient: the first unknown
\* ingredient raises 422, else every item is converted.
ConvertIngredients(S, list) ==
    IF \E i \in 1..Len(list) : ~_convert_recipe_ingredient(S, list[i])
        THEN LET k == CHOOSE i \in 1..Len(list) :
                          /\ ~_convert_recipe_ingredient(S, list[i])
                          /\ \A j \in 1..(i - 1) : _convert_recipe_ingredient(S, list[j])
             IN [ok |-> FALSE,
                 detail |-> "Unknown ingredient_id=" \o ToString(list[k].ingredient_id),
                 value |-> <<>>]
        ELSE [ok |-> TRUE, detail |-> "",
              value |-> [i \in 1..Len(list) |-> RecipeIngredient(list[i])]]

\* create_recipe that draws the recipe's id before it converts the
\* ingredients.
store_create_recipe_id_first(S, payload, owner_id) ==
    LET id == S.recipe_seq
        T == [S EXCEPT !.recipe_seq = id + 1]
        recipe_ingredients == ConvertIngredients(T, payload.ingredients)
    IN IF ~recipe_ingredients.ok THEN Raise(T, 422, recipe_ingredients.detail)
       ELSE LET recipe == Recipe(id, owner_id, payload.title, payload.steps,
                                 recipe_ingredients.value)
            IN [st |-> [T EXCEPT !.recipes = Put(@, recipe.id, recipe)],
                resp |-> Reply(201, recipe)]

\* InMemoryRecipeStore.create_recipe
store_create_recipe(S, payload, owner_id) ==
    LET recipe_ingredients == ConvertIngredients(S, payload.ingredients) IN
    IF ~recipe_ingredients.ok THEN Raise(S, 422, recipe_ingredients.detail)
    ELSE LET recipe == Recipe(S.recipe_seq, owner_id, payload.title, payload.steps,
                              recipe_ingredients.value)
         IN [st |-> [S EXCEPT !.recipe_seq = @ + 1,
                              !.recipes = Put(@, recipe.id, recipe)],
             resp |-> Reply(201, recipe)]

\* The ids of a dict in insertion order; ids only grow, so in ascending order.
RECURSIVE Ascending(_)
Ascending(ids) ==
    IF ids = {} THEN <<>>
    ELSE LET m == CHOOSE x \in ids : \A y \in ids : x <= y
         IN <<m>> \o Ascending(ids \ {m})

\* list_recipes that filters by ingredient but not by owner.
store_list_recipes_of_everyone(S, owner_id, ingredient_name) ==
    LET own == DOMAIN S.recipes IN
    IF ingredient_name # None /\ ingredient_name[1] # <<>>
        THEN LET norm == _normalize_name(ingredient_name[1]) IN
             IF norm \notin DOMAIN S.ingredients_by_name THEN <<>>
             ELSE LET ingredient_id == S.ingredients_by_name[norm]
                      hit == {id \in own :
                                 \E i \in 1..Len(S.recipes[id].ingredients) :
                                     S.recipes[id].ingredients[i].ingredient_id = ingredient_id}
                  IN [i \in 1..Cardinality(hit) |-> S.recipes[Ascending(hit)[i]]]
        ELSE [i \in 1..Cardinality(own) |-> S.recipes[Ascending(own)[i]]]

\* InMemoryRecipeStore.list_recipes
store_list_recipes(S, owner_id, ingredient_name) ==
    LET own == {id \in DOMAIN S.recipes : S.recipes[id].owner_id = owner_id} IN
    IF ingredient_name # None /\ ingredient_name[1] # <<>>
        THEN LET norm == _normalize_name(ingredient_name[1]) IN
             IF norm \notin DOMAIN S.ingredients_by_name THEN <<>>
             ELSE LET ingredient_id == S.ingredients_by_name[norm]
                      hit == {id \in own :
                                 \E i \in 1..Len(S.recipes[id].ingredients) :
                                     S.recipes[id].ingredients[i].ingredient_id = ingredient_id}
                  IN [i \in 1..Cardinality(hit) |-> S.recipes[Ascending(hit)[i]]]
        ELSE [i \in 1..Cardinality(own) |-> S.recipes[Ascending(own)[i]]]

\* InMemoryRecipeStore.get_recipe
store_get_recipe(S, recipe_id, owner_id) ==
    IF recipe_id \notin DOMAIN S.recipes \/ S.recipes[recipe_id].owner_id # owner_id
        THEN Raise(S, 404, "Recipe not found")
        ELSE [st |-> S, resp |-> Reply(200, S.recipes[recipe_id])]

\* update_recipe that takes any stored recipe and files the result under
\* the caller.
store_update_recipe_taking_over(S, recipe_id, owner_id, payload) ==
    IF recipe_id \notin DOMAIN S.recipes
        THEN Raise(S, 404, "Recipe not found")
    ELSE LET recipe == S.recipes[recipe_id]
             title == IF payload.title # None THEN payload.title[1] ELSE recipe.title
             steps == IF payload.steps # None THEN payload.steps[1] ELSE recipe.steps
             conv == IF payload.ingredients # None
                         THEN ConvertIngredients(S, payload.ingredients[1])
                         ELSE [ok |-> TRUE, detail |-> "", value |-> recipe.ingredients]
         IN IF ~conv.ok THEN Raise(S, 422, conv.detail)
            ELSE LET updated == Recipe(recipe.id, owner_id, title, steps, conv.value)
                 IN [st |-> [S EXCEPT !.recipes = Put(@, recipe_id, updated)],
                     resp |-> Reply(200, updated)]

\* InMemoryRecipeStore.update_recipe
store_update_recipe(S, recipe_id, owner_id, payload) ==
    IF recipe_id \notin DOMAIN S.recipes \/ S.recipes[recipe_id].owner_id # owner_id
        THEN Raise(S, 404, "Recipe not found")
    ELSE LET recipe == S.recipes[recipe_id]
             title == IF payload.title # None THEN payload.title[1] ELSE recipe.title
             steps == IF payload.steps # None THEN payload.steps[1] ELSE recipe.steps
             conv == IF payload.ingredients # None
                         THEN ConvertIngredients(S, payload.ingredients[1])
                         ELSE [ok |-> TRUE, detail |-> "", value |-> recipe.ingredients]
         IN IF ~conv.ok THEN Raise(S, 422, conv.detail)
            ELSE LET updated == Recipe(recipe.id, recipe.owner_id, title, steps, conv.value)
                 IN [st |-> [S EXCEPT !.recipes = Put(@, recipe_id, updated)],
                     resp |-> Reply(200, updated)]

\* delete_recipe that looks at the id and not at the owner.
store_delete_recipe_any_owner(S, recipe_id, owner_id) ==
    IF recipe_id \notin DOMAIN S.recipes
        THEN Raise(S, 404, "Recipe not found")
        ELSE [st |-> [S EXCEPT !.recipes = Del(@, recipe_id)], resp |-> Reply(204, None)]

\* InMemoryRecipeStore.delete_recipe
store_delete_recipe(S, recipe_id, owner_id) ==
    IF recipe_id \notin DOMAIN S.recipes \/ S.recipes[recipe_id].owner_id # owner_id
        THEN Raise(S, 404, "Recipe not found")
        ELSE [st |-> [S EXCEPT !.recipes = Del(@, recipe_id)], resp |-> Reply(204, None)]

(***************************************************************************)
(* Endpoints: ingredients and recipes. Depends(get_current_user) runs      *)
(* first and its HTTPException ends the request; then the body is          *)
(* validated; then the store method runs.                                  *)
(***************************************************************************)

\* POST /ingredients
create_ingredient(S, credentials, raw) ==
    LET current_user == get_current_user(S, credentials)
        payload == IngredientCreate(raw)
    IN IF ~current_user.ok THEN [st |-> S, resp |-> current_user.resp]
       ELSE IF ~payload.ok THEN Raise(S, 422, payload.detail)
       ELSE store_create_ingredient(S, payload.value)

\* POST /recipes
create_recipe(S, credentials, raw) ==
    LET current_user == get_current_user(S, credentials)
        payload == RecipeCreate(raw)
    IN IF ~current_user.ok THEN [st |-> S, resp |-> current_user.resp]
       ELSE IF ~payload.ok THEN Raise(S, 422, payload.detail)
       ELSE store_create_recipe(S, payload.value, current_user.resp.body.id)

\* GET /recipes; Query(default=None, min_length=1, max_length=100) is checked
\* on the text as sent, after the dependency has resolved the caller.
list_recipes(S, credentials, ingredient) ==
    LET current_user == get_current_user(S, credentials) IN
    IF ~current_user.ok THEN [st |-> S, resp |-> current_user.resp]
    ELSE IF ingredient # None /\ (Len(ingredient[1]) < 1 \/ Len(ingredient[1]) > 100)
        THEN Raise(S, 422, "query.ingredient: invalid")
    ELSE [st |-> S,
          resp |-> Reply(200, store_list_recipes(S, current_user.resp.body.id, ingredient))]

\* GET /recipes/{recipe_id}
get_recipe(S, credentials, recipe_id) ==
    LET current_user == get_current_user(S, credentials) IN
    IF ~current_user.ok THEN [st |-> S, resp |-> current_user.resp]
    ELSE store_get_recipe(S, recipe_id, current_user.resp.body.id)

\* PATCH /recipes/{recipe_id}
update_recipe(S, credentials, recipe_id, raw) ==
    LET current_user == get_current_user(S, credentials)
        payload == RecipeUpdate(raw)
    IN IF ~current_user.ok THEN [st |-> S, resp |-> current_user.resp]
       ELSE IF ~payload.ok THEN Raise(S, 422, payload.detail)
       ELSE IF payload.value.title = None /\ payload.value.steps = None
                /\ payload.value.ingredients = None
           THEN Raise(S, 400, "No fields to update")
       ELSE store_update_recipe(S, recipe_id, current_user.resp.body.id, payload.value)

\* DELETE /recipes/{recipe_id}
delete_recipe(S, credentials, recipe_id) ==
    LET current_user == get_current_user(S, credentials) IN
    IF ~current_user.ok THEN [st |-> S, resp |-> current_user.resp]
    ELSE store_delete_recipe(S, recipe_id, current_user.resp.body.id)

(***************************************************************************)
(* Requests the model sends                                                *)
(***************************************************************************)

\* How many tokens generate_token hands out in one run of the model.
NumTokens == 2

\* How many recipes create_recipe stores before the model stops creating.
MaxRecipes == 1

\* secrets.token_urlsafe(32): URL-safe text that no earlier call returned
\* (256 random bits do not repeat). Token(k) names the k-th token of a run;
\* the model's tokens are shorter than 43 characters.
Token(k) == <<"t", "k", DigitChars[k + 1]>>

TokenPool == {Token(k) : k \in 1..NumTokens}

\* generate_token(): the next token, while the model has one left.
generate_token == {Token(k) : k \in {Cardinality(issued) + 1} \cap (1..NumTokens)}

\* secrets.token_bytes(16): the salts the model draws.
SaltA == [i \in 1..SALT_BYTES |-> (37 * i) % 256]

SaltB == [i \in 1..SALT_BYTES |-> (101 * i + 5) % 256]

Salts == {SaltA, SaltB}

EmailAlice == <<"a", "@", "b", ".", "c">>

EmailAliceRaw == <<"A", "@", "b", ".", "c", " ">>

EmailBob == <<"x", "@", "y", ".", "z">>

EmailNoAt == <<"a", "b", ".", "c", "d">>

PwAlice == <<"p", "a", "s", "s", "w", "0", "r", "d">>

PwBob == <<"S", "e", "c", "r", "e", "t", "1", "2">>

PwNoDigit == <<"p", "a", "s", "s", "w", "o", "r", "d">>

PwShort == <<"p", "w", "1">>

\* The bodies sent to POST /auth/register and POST /auth/login when the
\* model explores authentication: two spellings of one address, a second
\* address, a malformed one; a password that passes the policy, one without
\* a digit, one that is too short.
RegisterBodies ==
    [email : {EmailAlice, EmailAliceRaw, EmailBob, EmailNoAt},
     password : {PwAlice, PwBob, PwNoDigit}]

LoginBodies ==
    [email : {EmailAlice, EmailAliceRaw, EmailBob, EmailNoAt},
     password : {PwAlice, PwBob, PwNoDigit, PwShort}]

\* The bodies sent to them when the model explores recipes: two accounts.
OwnerBodies ==
    { [email |-> EmailAlice, password |-> PwAlice],
      [email |-> EmailBob, password |-> PwBob] }

OwnerLoginBodies == OwnerBodies \cup { [email |-> EmailAlice, password |-> PwBob] }

\* Authorization: Bearer <token>
Bearer(token) == Some([scheme |-> <<"B", "e", "a", "r", "e", "r">>, credentials |-> token])

\* The Authorization headers sent to GET /auth/me.
Headers ==
    {None,
     Some([scheme |-> <<"B", "a", "s", "i", "c">>, credentials |-> Token(1)]),
     Some([scheme |-> <<"B", "E", "A", "R", "E", "R">>, credentials |-> <<" ">> \o Token(1) \o <<" ">>]),
     Bearer(<<>>),
     Bearer(<<" ", " ">>),
     Bearer(<<"n", "o", "p", "e">>)}
    \cup {Bearer(t) : t \in TokenPool}

\* The Authorization headers sent to the ingredient and recipe endpoints.
ProtectedHeaders == {None} \cup {Bearer(t) : t \in TokenPool}

IngredientBodies ==
    [name : { <<"S", "a", "l", "t">>, <<" ", "s", "a", "l", "t">>,
              <<"R", "i", "c", "e">>, <<" ">> }]

Item(id, unit) == [ingredient_id |-> id, amount |-> 5, unit |-> unit]

\* Ingredient lists of a recipe body: known and unknown ids, one bad unit.
IngredientLists ==
    { <<Item(1, <<"g">>)>>, <<Item(2, <<"k", "g">>)>>, <<Item(3, <<"g">>)>>,
      <<Item(1, <<"c", "u", "p">>)>> }

RecipeCreateBodies ==
    [title : { <<"S", "o", "u", "p">> }, steps : { <<"B", "o", "i", "l">> },
     ingredients : IngredientLists]

\* Bodies of PATCH /recipes/{id}: no field, a title, a known and an unknown
\* ingredient.
RecipeUpdateBodies ==
    { [title |-> None, steps |-> None, ingredients |-> None],
      [title |-> Some(<<"S", "t", "e", "w">>), steps |-> None, ingredients |-> None],
      [title |-> None, steps |-> None, ingredients |-> Some(<<Item(2, <<"k", "g">>)>>)],
      [title |-> None, steps |-> None, ingredients |-> Some(<<Item(3, <<"g">>)>>)] }

RecipeIds == 1..(MaxRecipes + 1)

IngredientFilters == {None, Some(<<"S", "A", "L", "T", " ">>), Some(<<"o", "i", "l">>)}

(***************************************************************************)
(* State machine: one request at a time                                    *)
(***************************************************************************)

Threads == {1, 2}

\* A request thread before its request arrives.
IdleThread ==
    [pc |-> "idle", email |-> <<>>, password |-> <<>>, salt |-> <<>>,
     user_id |-> 0, password_hash |-> <<>>, status |-> 0]

NoCall == [fn |-> "none", password |-> <<>>, stored |-> <<>>, done |-> FALSE, result |-> Returns(FALSE)]

\* The service before any backend is constructed: reachable, no key.
NoRedis ==
    /\ redis = [up |-> TRUE, data |-> EmptyDict]
    /\ clock = 0
    /\ backends = {}
    /\ last_store = EmptyDict

Init ==
    /\ users = EmptyDict
    /\ users_by_email = EmptyDict
    /\ sessions = EmptyDict
    /\ user_seq = 1
    /\ ingredients = EmptyDict
    /\ ingredients_by_name = EmptyDict
    /\ ingredient_seq = 1
    /\ recipes = EmptyDict
    /\ recipe_seq = 1
    /\ issued = {}
    /\ retired = {}
    /\ threads = [t \in Threads |-> IdleThread]
    /\ NoRedis
    /\ call = NoCall

\* The store a handler leaves becomes the store; its response goes to the
\* client.
Commit(r) ==
    /\ users' = r.st.users
    /\ users_by_email' = r.st.users_by_email
    /\ sessions' = r.st.sessions
    /\ user_seq' = r.st.user_seq
    /\ ingredients' = r.st.ingredients
    /\ ingredients_by_name' = r.st.ingredients_by_name
    /\ ingredient_seq' = r.st.ingredient_seq
    /\ recipes' = r.st.recipes
    /\ recipe_seq' = r.st.recipe_seq

Register(bodies, salts) ==
    \E raw \in bodies, salt \in salts :
        \E r \in {register_user(Store, raw, salt)} :
            /\ Commit(r)
            /\ UNCHANGED <<issued, retired, threads, call, redis, clock, backends, last_store>>

Login(bodies) ==
    \E raw \in bodies, token \in (IF generate_token = {} THEN {Token(NumTokens)} ELSE generate_token) :
        \E r \in {login_user(Store, raw, token)} :
            /\ r.resp.status = 200 => token \in generate_token
            /\ Commit(r)
            /\ issued' = IF r.resp.status = 200 THEN issued \cup {token} ELSE issued
            /\ UNCHANGED <<retired, threads, call, redis, clock, backends, last_store>>

Me(headers) ==
    \E credentials \in headers :
        \E r \in {read_current_user(Store, credentials)} :
            /\ Commit(r)
            /\ UNCHANGED <<issued, retired, threads, call, redis, clock, backends, last_store>>

\* STORE.reset(), as the test fixture calls it between tests.
Reset ==
    /\ Commit([st |-> reset(Store)])
    /\ retired' = retired \cup DOMAIN sessions
    /\ UNCHANGED <<issued, threads, call, redis, clock, backends, last_store>>

CreateIngredient ==
    \E credentials \in ProtectedHeaders, raw \in IngredientBodies :
        \E r \in {create_ingredient(Store, credentials, raw)} :
            /\ Commit(r)
            /\ UNCHANGED <<issued, retired, threads, call, redis, clock, backends, last_store>>

CreateRecipe ==
    \E credentials \in ProtectedHeaders, raw \in RecipeCreateBodies :
        \E r \in {create_recipe(Store, credentials, raw)} :
            /\ r.resp.status = 201 => recipe_seq <= MaxRecipes
            /\ Commit(r)
            /\ UNCHANGED <<issued, retired, threads, call, redis, clock, backends, last_store>>

ListRecipes ==
    \E credentials \in ProtectedHeaders, ingredient \in IngredientFilters :
        \E r \in {list_recipes(Store, credentials, ingredient)} :
            /\ Commit(r)
            /\ UNCHANGED <<issued, retired, threads, call, redis, clock, backends, last_store>>

GetRecipe ==
    \E credentials \in ProtectedHeaders, recipe_id \in RecipeIds :
        \E r \in {get_recipe(Store, credentials, recipe_id)} :
            /\ Commit(r)
            /\ UNCHANGED <<issued, retired, threads, call, redis, clock, backends, last_store>>

UpdateRecipe ==
    \E credentials \in ProtectedHeaders, recipe_id \in RecipeIds, raw \in RecipeUpdateBodies :
        \E r \in {update_recipe(Store, credentials, recipe_id, raw)} :
            /\ Commit(r)
            /\ UNCHANGED <<issued, retired, threads, call, redis, clock, backends, last_store>>

DeleteRecipe ==
    \E credentials \in ProtectedHeaders, recipe_id \in RecipeIds :
        \E r \in {delete_recipe(Store, credentials, recipe_id)} :
            /\ Commit(r)
            /\ UNCHANGED <<issued, retired, threads, call, redis, clock, backends, last_store>>

Next ==
    \/ Register(OwnerBodies, {SaltA})
    \/ Login(OwnerLoginBodies)
    \/ Me(ProtectedHeaders)
    \/ Reset
    \/ CreateIngredient
    \/ CreateRecipe
    \/ ListRecipes
    \/ GetRecipe
    \/ UpdateRecipe
    \/ DeleteRecipe

Spec == Init /\ [][Next]_vars

(***************************************************************************)
(* State machine: authentication alone, with every spelling of the bodies  *)
(***************************************************************************)

NextAuth ==
    \/ Register(RegisterBodies, Salts)
    \/ Login(LoginBodies)
    \/ Me(Headers)
    \/ Reset

SpecAuth == Init /\ [][NextAuth]_vars

(***************************************************************************)
(* State machine: two POST /auth/register requests in two threads.         *)
(* register_user is a plain def, so each request runs in a worker thread   *)
(* and the interpreter may switch threads between any two steps of         *)
(* create_user; nothing in the store takes a lock.                         *)
(***************************************************************************)

ThreadBodies ==
    [email : {EmailAlice, EmailAliceRaw, EmailBob, EmailNoAt}, password : {PwAlice, PwNoDigit}]

\* The request arrives: UserRegister validates the body, create_user
\* normalizes the email.
TStart(t) ==
    /\ threads[t].pc = "idle"
    /\ \E raw \in ThreadBodies, salt \in Salts :
        \E payload \in {UserRegister(raw)} :
            threads' = [threads EXCEPT ![t] =
                IF ~payload.ok THEN [@ EXCEPT !.pc = "done", !.status = 422]
                ELSE [@ EXCEPT !.pc = "check",
                               !.email = _normalize_email(payload.value.email),
                               !.password = payload.value.password,
                               !.salt = salt]]
    /\ UNCHANGED <<users, users_by_email, sessions, user_seq, ingredients,
                   ingredients_by_name, ingredient_seq, recipes, recipe_seq,
                   issued, retired, call, redis, clock, backends, last_store>>

\* if email in self._users_by_email: raise HTTPException(409)
TCheck(t) ==
    /\ threads[t].pc = "check"
    /\ threads' = [threads EXCEPT ![t] =
           IF threads[t].email \in DOMAIN users_by_email
               THEN [@ EXCEPT !.pc = "done", !.status = 409]
               ELSE [@ EXCEPT !.pc = "alloc"]]
    /\ UNCHANGED <<users, users_by_email, sessions, user_seq, ingredients,
                   ingredients_by_name, ingredient_seq, recipes, recipe_seq,
                   issued, retired, call, redis, clock, backends, last_store>>

\* user_id = next(self._user_seq)
TAlloc(t) ==
    /\ threads[t].pc = "alloc"
    /\ threads' = [threads EXCEPT ![t] = [@ EXCEPT !.pc = "hash", !.user_id = user_seq]]
    /\ user_seq' = user_seq + 1
    /\ UNCHANGED <<users, users_by_email, sessions, ingredients,
                   ingredients_by_name, ingredient_seq, recipes, recipe_seq,
                   issued, retired, call, redis, clock, backends, last_store>>

\* record = {..., "password_hash": hash_password(payload.password)}
THash(t) ==
    /\ threads[t].pc = "hash"
    /\ threads' = [threads EXCEPT ![t] =
           [@ EXCEPT !.pc = "write_users",
                     !.password_hash = hash_password(threads[t].password, threads[t].salt)]]
    /\ UNCHANGED <<users, users_by_email, sessions, user_seq, ingredients,
                   ingredients_by_name, ingredient_seq, recipes, recipe_seq,
                   issued, retired, call, redis, clock, backends, last_store>>

\* self._users[user_id] = record
TWriteUsers(t) ==
    /\ threads[t].pc = "write_users"
    /\ users' = Put(users, threads[t].user_id,
                    [id |-> threads[t].user_id, email |-> threads[t].email,
                     password_hash |-> threads[t].password_hash])
    /\ threads' = [threads EXCEPT ![t] = [@ EXCEPT !.pc = "write_index"]]
    /\ UNCHANGED <<users_by_email, sessions, user_seq, ingredients,
                   ingredients_by_name, ingredient_seq, recipes, recipe_seq,
                   issued, retired, call, redis, clock, backends, last_store>>

\* self._users_by_email[email] = user_id
TWriteIndex(t) ==
    /\ threads[t].pc = "write_index"
    /\ users_by_email' = Put(users_by_email, threads[t].email, threads[t].user_id)
    /\ threads' = [threads EXCEPT ![t] = [@ EXCEPT !.pc = "return"]]
    /\ UNCHANGED <<users, sessions, user_seq, ingredients,
                   ingredients_by_name, ingredient_seq, recipes, recipe_seq,
                   issued, retired, call, redis, clock, backends, last_store>>

\* return UserPublic(id=user_id, email=email): 201 Created
TReturn(t) ==
    /\ threads[t].pc = "return"
    /\ threads' = [threads EXCEPT ![t] = [@ EXCEPT !.pc = "done", !.status = 201]]
    /\ UNCHANGED <<users, users_by_email, sessions, user_seq, ingredients,
                   ingredients_by_name, ingredient_seq, recipes, recipe_seq,
                   issued, retired, call, redis, clock, backends, last_store>>

NextThreads ==
    \E t \in Threads :
        \/ TStart(t)
        \/ TCheck(t)
        \/ TAlloc(t)
        \/ THash(t)
        \/ TWriteUsers(t)
        \/ TWriteIndex(t)
        \/ TReturn(t)

SpecThreads == Init /\ [][NextThreads]_vars

(***************************************************************************)
(* State machine: one direct call of verify_password                       *)
(***************************************************************************)

\* The longest stored digest the model writes out character by character.
MaxStoredLen == 3

\* What a stored digest is made of here: a base64 character, the pad, the
\* delimiter, a character outside the base64 alphabet.
DigestChars == {"Q", "=", ":", "!"}

RECURSIVE StringsUpTo(_)
StringsUpTo(n) ==
    IF n = 0 THEN {<<>>}
    ELSE StringsUpTo(n - 1)
         \cup {Append(s, c) : s \in {x \in StringsUpTo(n - 1) : Len(x) = n - 1}, c \in DigestChars}

\* Stored digests: every short string, a digest hash_password wrote, and
\* that digest with a character outside ASCII in its salt.
StoredDigests ==
    StringsUpTo(MaxStoredLen)
    \cup {hash_password(PwAlice, SaltA), <<NonAsciiChar>> \o hash_password(PwAlice, SaltA)}

InitVerify ==
    /\ users = EmptyDict
    /\ users_by_email = EmptyDict
    /\ sessions = EmptyDict
    /\ user_seq = 1
    /\ ingredients = EmptyDict
    /\ ingredients_by_name = EmptyDict
    /\ ingredient_seq = 1
    /\ recipes = EmptyDict
    /\ recipe_seq = 1
    /\ issued = {}
    /\ retired = {}
    /\ threads = [t \in Threads |-> IdleThread]
    /\ NoRedis
    /\ call \in [fn : {"verify_password"}, password : {PwAlice, PwNoDigit},
                 stored : StoredDigests, done : {FALSE}, result : {Returns(FALSE)}]

\* verify_password(password, stored) runs and returns or raises.
CallVerify ==
    /\ call.fn = "verify_password"
    /\ ~call.done
    /\ call' = [call EXCEPT !.done = TRUE, !.result = verify_password(call.password, call.stored)]
    /\ UNCHANGED <<users, users_by_email, sessions, user_seq, ingredients,
                   ingredients_by_name, ingredient_seq, recipes, recipe_seq,
                   issued, retired, threads, redis, clock, backends, last_store>>

NextVerify == CallVerify

SpecVerify == InitVerify /\ [][NextVerify]_vars

(***************************************************************************)
(* Properties                                                              *)
(***************************************************************************)

\* The emails of the user records: the addresses registered since the last
\* reset.
RegisteredEmails == {users[id].email : id \in DOMAIN users}

\* Trimmed and lower-cased, as the specification words normalization.
Normalized(email) == Lower(Strip(email))

\* The stored digest is not a digest of this password under any salt.
WrongPassword(raw) ==
    \A id \in DOMAIN users :
        users[id].email = Normalized(raw.email)
            => users[id].password_hash
                   \notin {hash_password(Strip(raw.password), salt) : salt \in Salts}

\* C1: for every valid (email, password) whose normalized email is not yet
\* registered, register succeeds, login with the same body right after it
\* succeeds, and GET /auth/me with "Bearer <the token login returned>"
\* returns the id register returned and the normalized email.
RegisterThenLoginResolves ==
    \A raw \in RegisterBodies, salt \in Salts, token \in generate_token :
        (UserRegister(raw).ok /\ Normalized(raw.email) \notin RegisteredEmails) =>
            \E r1 \in {register_user(Store, raw, salt)} :
                /\ r1.resp.status = 201
                /\ \E r2 \in {login_user(r1.st, raw, token)} :
                    /\ r2.resp.status = 200
                    /\ \E r3 \in {read_current_user(r2.st, Bearer(r2.resp.body.access_token))} :
                        /\ r3.resp.status = 200
                        /\ r3.resp.body.id = r1.resp.body.id
                        /\ r3.resp.body.email = Normalized(raw.email)
                        /\ r1.resp.body.email = Normalized(raw.email)

\* C1 witness: one register and one login have succeeded, and the token of
\* that login resolves to the user registered under the raw spelling's
\* normalized address.
RegisteredLoggedInResolved ==
    /\ user_seq = 2
    /\ Cardinality(issued) = 1
    /\ \E t \in DOMAIN sessions :
        \E r \in {read_current_user(Store, Bearer(t))} :
            /\ r.resp.status = 200
            /\ r.resp.body = [id |-> 1, email |-> Normalized(EmailAliceRaw)]

FailedLoginsIndistinguishable ==
    \A raw \in LoginBodies, token \in TokenPool :
        (Normalized(raw.email) \notin RegisteredEmails \/ WrongPassword(raw)) =>
            \E r \in {login_user(Store, raw, token)} :
                /\ r.st = Store
                /\ r.resp = login_user(reset(Store), raw, token).resp
                /\ UserLogin(raw).ok => r.resp = problem(401, "Invalid credentials")

\* C4 witness: a user is registered; one body names that user with a wrong
\* password, another names an address nobody registered; both get the 401.
BothFailedLoginsSeen ==
    \E a \in LoginBodies, b \in LoginBodies :
        /\ UserLogin(a).ok /\ UserLogin(b).ok
        /\ Normalized(a.email) \in RegisteredEmails /\ WrongPassword(a)
        /\ Normalized(b.email) \notin RegisteredEmails
        /\ login_user(Store, a, Token(1)).resp.status = 401
        /\ login_user(Store, b, Token(1)).resp = login_user(Store, a, Token(1)).resp

\* The 401 an Authorization header earns, or None when it names an active
\* session: no header, a scheme other than "bearer" in any letter case and a
\* token that is empty once trimmed are "Authorization header missing"; a
\* bearer token no active session holds is "Invalid or expired token".
Unauthorized(credentials) ==
    IF credentials = None THEN Some(problem(401, "Authorization header missing"))
    ELSE IF Lower(credentials[1].scheme) # Lower(<<"b", "e", "a", "r", "e", "r">>)
        THEN Some(problem(401, "Authorization header missing"))
    ELSE IF Strip(credentials[1].credentials) = <<>>
        THEN Some(problem(401, "Authorization header missing"))
    ELSE IF Strip(credentials[1].credentials) \notin DOMAIN sessions
        THEN Some(problem(401, "Invalid or expired token"))
    ELSE None

\* C5: a request to a protected endpoint without an Authorization header,
\* with a non-bearer scheme or with an empty token is answered 401
\* "Authorization header missing", and one whose bearer token is no active
\* session 401 "Invalid or expired token"; the handler is not reached: the
\* answer is that 401 whatever the rest of the request, and the store is
\* left as it was.
UnauthorizedNeverReachesHandler ==
    \A credentials \in Headers :
        Unauthorized(credentials) # None =>
            \E denied \in {[st |-> Store, resp |-> Unauthorized(credentials)[1]]} :
                /\ read_current_user(Store, credentials) = denied
                /\ \A raw \in IngredientBodies : create_ingredient(Store, credentials, raw) = denied
                /\ \A raw \in RecipeCreateBodies : create_recipe(Store, credentials, raw) = denied
                /\ \A f \in IngredientFilters : list_recipes(Store, credentials, f) = denied
                /\ \A id \in RecipeIds :
                    /\ get_recipe(Store, credentials, id) = denied
                    /\ delete_recipe(Store, credentials, id) = denied
                    /\ \A raw \in RecipeUpdateBodies :
                           update_recipe(Store, credentials, id, raw) = denied

\* C5 witness: a session is active and a recipe is stored, so an authorized
\* request would be served, while a header with another scheme carrying the
\* active token and a header with an unissued token are refused.
UnauthorizedBesideActiveSession ==
    /\ recipes # EmptyDict
    /\ \E t \in DOMAIN sessions, c \in Headers, d \in Headers :
        /\ get_recipe(Store, Bearer(t), 1).resp.status = 200
        /\ c # None /\ c[1].credentials = t
        /\ get_recipe(Store, c, 1).resp = problem(401, "Authorization header missing")
        /\ get_recipe(Store, d, 1).resp = problem(401, "Invalid or expired token")

\* C6: a token that was active when reset ran resolves to no user in any
\* later state: it is no session again, and GET /auth/me with it is 401
\* "Invalid or expired token".
RetiredTokensStayInvalid ==
    \A t \in retired :
        /\ t \notin DOMAIN sessions
        /\ read_current_user(Store, Bearer(t)).resp = problem(401, "Invalid or expired token")

\* C6 witness: reset retired a token, and since then a user registered and
\* logged in again.
LoginAfterReset ==
    /\ retired # {}
    /\ sessions # EmptyDict
    /\ \E t \in DOMAIN sessions : read_current_user(Store, Bearer(t)).resp.status = 200

\* The validated bodies of PATCH /recipes/{id}.
UpdatePayloads == {RecipeUpdate(raw).value : raw \in {b \in RecipeUpdateBodies : RecipeUpdate(b).ok}}

\* C7: for every stored recipe and every authenticated user other than its
\* owner, get_recipe, update_recipe and delete_recipe on the recipe's id
\* return 404 "Recipe not found", what they return for an id no recipe has,
\* and leave the store as it was; so do the three endpoints with that user's
\* token.
ForeignRecipeLooksAbsent ==
    \A id \in DOMAIN recipes, t \in DOMAIN sessions :
        sessions[t] # recipes[id].owner_id =>
            \E u \in {sessions[t]}, absent \in {recipe_seq},
               notFound \in {[st |-> Store, resp |-> problem(404, "Recipe not found")]} :
                /\ absent \notin DOMAIN recipes
                /\ store_get_recipe(Store, id, u) = notFound
                /\ store_get_recipe(Store, absent, u) = notFound
                /\ store_delete_recipe(Store, id, u) = notFound
                /\ store_delete_recipe(Store, absent, u) = notFound
                /\ \A payload \in UpdatePayloads :
                    /\ store_update_recipe(Store, id, u, payload) = notFound
                    /\ store_update_recipe(Store, absent, u, payload) = notFound
                /\ get_recipe(Store, Bearer(t), id) = notFound
                /\ delete_recipe(Store, Bearer(t), id) = notFound
                /\ \A raw \in RecipeUpdateBodies :
                    update_recipe(Store, Bearer(t), id, raw)
                        = update_recipe(Store, Bearer(t), absent, raw)

\* C7 witness: a recipe is stored, its owner reads it, and a second user
\* with a session of their own is told it is not there.
OtherUserRefused ==
    \E id \in DOMAIN recipes, t \in DOMAIN sessions, o \in DOMAIN sessions :
        /\ sessions[t] # recipes[id].owner_id
        /\ get_recipe(Store, Bearer(o), id).resp.status = 200
        /\ get_recipe(Store, Bearer(t), id).resp.status = 404
        /\ delete_recipe(Store, Bearer(t), id).resp.status = 404

\* Ingredient lists the recipe properties try beside those the requests
\* carry: an unknown id after a known one, two unknown ids.
ProbeLists ==
    IngredientLists
    \cup { <<Item(1, <<"g">>), Item(3, <<"g">>)>>, <<Item(4, <<"g">>), Item(3, <<"g">>)>> }

\* The ids of a list that the ingredient directory does not hold, in order.
UnknownIds(list) ==
    SelectSeq([i \in 1..Len(list) |-> list[i].ingredient_id],
              LAMBDA id : id \notin DOMAIN ingredients)

\* The 422 for the first unknown ingredient of a list.
UnknownIngredient(list) ==
    [st |-> Store,
     resp |-> problem(422, "Unknown ingredient_id=" \o ToString(Head(UnknownIds(list))))]

CreatePayload(list) ==
    [title |-> <<"S", "o", "u", "p">>, steps |-> <<"B", "o", "i", "l">>, ingredients |-> list]

IngredientsPayload(list) == [title |-> None, steps |-> None, ingredients |-> Some(list)]

\* Every ingredient_id a stored recipe holds is in the ingredient directory.
RecipeIngredientsExist ==
    \A id \in DOMAIN recipes :
        \A i \in 1..Len(recipes[id].ingredients) :
            recipes[id].ingredients[i].ingredient_id \in DOMAIN ingredients

\* C8 as stated: create_recipe and update_recipe answer 422 "Unknown
\* ingredient_id=..." to any payload naming an ingredient the directory does
\* not hold, whichever recipe id the update names, and every ingredient_id
\* of a stored recipe is in the directory.
UnknownIngredientAlways422 ==
    /\ RecipeIngredientsExist
    /\ \A u \in DOMAIN users, list \in {l \in ProbeLists : UnknownIds(l) # <<>>} :
        /\ store_create_recipe(Store, CreatePayload(list), u) = UnknownIngredient(list)
        /\ \A id \in RecipeIds :
            store_update_recipe(Store, id, u, IngredientsPayload(list)) = UnknownIngredient(list)

\* C8 amended: create_recipe, and update_recipe of a recipe the caller owns,
\* answer 422 "Unknown ingredient_id=<first unknown id>" to any payload
\* naming an ingredient the directory does not hold and store nothing;
\* update_recipe of any other id answers 404 "Recipe not found" before it
\* looks at the ingredients; every ingredient_id of a stored recipe is in
\* the directory.
UnknownIngredientRejected ==
    /\ RecipeIngredientsExist
    /\ \A u \in DOMAIN users, list \in {l \in ProbeLists : UnknownIds(l) # <<>>} :
        /\ store_create_recipe(Store, CreatePayload(list), u) = UnknownIngredient(list)
        /\ \A id \in RecipeIds :
            store_update_recipe(Store, id, u, IngredientsPayload(list))
                = IF id \in DOMAIN recipes /\ recipes[id].owner_id = u
                      THEN UnknownIngredient(list)
                      ELSE [st |-> Store, resp |-> problem(404, "Recipe not found")]

\* C8 witness: a recipe with an ingredient is stored, the directory lacks
\* an id that a request names, and the owner's update naming it is refused.
UnknownIngredientRefusedForOwner ==
    \E id \in DOMAIN recipes :
        /\ recipes[id].ingredients # <<>>
        /\ 2 \notin DOMAIN ingredients
        /\ store_update_recipe(Store, id, recipes[id].owner_id,
                               IngredientsPayload(<<Item(2, <<"k", "g">>)>>)).resp.status = 422

\* Names sent to POST /ingredients, and two more spellings of one of them.
ProbeNames ==
    IngredientBodies
    \cup [name : { <<"S", "A", "L", "T", " ">>, <<"r", "I", "C", "E">> }]

\* Trimmed and case-folded, as the specification words the name's identity.
Folded(name) == Casefold(Strip(name))

AtMostOneRegistrationSucceeds ==
    /\ \A t1 \in Threads, t2 \in Threads :
        (t1 # t2 /\ threads[t1].status = 201 /\ threads[t2].status = 201)
            => threads[t1].email # threads[t2].email
    /\ \A i \in DOMAIN users, j \in DOMAIN users :
        i # j => users[i].email # users[j].email

\* RFC 4648 base64: groups of four characters of the alphabet, the last
\* group padded with at most two "=".
ValidBase64(s) ==
    /\ Len(s) % 4 = 0
    /\ \A i \in 1..Len(s) :
        \/ s[i] \in B64Set
        \/ s[i] = B64Pad /\ i >= Len(s) - 1 /\ (i = Len(s) - 1 => s[Len(s)] = B64Pad)

\* A stored digest that is not "<base64 salt>:<base64 derived key>".
Malformed(stored) ==
    \/ ~Contains(stored, ":")
    \/ \E parts \in {Split1(stored, ":")} :
        Len(parts) = 2 /\ (~ValidBase64(parts[1]) \/ ~ValidBase64(parts[2]))

\* C10: verify_password returns false and does not raise for every
\* malformed stored digest, one without the ":" and one whose salt or
\* derived key is not valid base64.
MalformedDigestVerifiesFalse ==
    (call.done /\ Malformed(call.stored)) => call.result = Returns(FALSE)

(***************************************************************************)
(* State machine: repeated calls of hash_password on one password          *)
(***************************************************************************)

\* How many times hash_password is called on the password.
MaxHashCalls == 3

SaltC == [i \in 1..SALT_BYTES |-> (255 - i) % 256]

SaltD == [i \in 1..SALT_BYTES |-> IF i = SALT_BYTES THEN 58 ELSE 0]

\* secrets.token_bytes(16): 128 random bits, which no two calls share.
HashSalts == Salts \cup {SaltC, SaltD}

\* Passwords given to hash_password directly: the empty one and one holding
\* the delimiter too.
HashPasswords == {PwAlice, PwBob, <<>>, <<":", "x">>}

InitHash ==
    /\ users = EmptyDict
    /\ users_by_email = EmptyDict
    /\ sessions = EmptyDict
    /\ user_seq = 1
    /\ ingredients = EmptyDict
    /\ ingredients_by_name = EmptyDict
    /\ ingredient_seq = 1
    /\ recipes = EmptyDict
    /\ recipe_seq = 1
    /\ issued = {}
    /\ retired = {}
    /\ threads = [t \in Threads |-> IdleThread]
    /\ NoRedis
    /\ call \in [fn : {"hash_password"}, password : HashPasswords,
                 salts : {<<>>}, digests : {<<>>}]

\* hash_password(password) draws its salt and returns the digest.
CallHash ==
    /\ call.fn = "hash_password"
    /\ Len(call.digests) < MaxHashCalls
    /\ \E salt \in HashSalts \ Range(call.salts) :
        call' = [call EXCEPT !.salts = Append(@, salt),
                             !.digests = Append(@, hash_password(call.password, salt))]
    /\ UNCHANGED <<users, users_by_email, sessions, user_seq, ingredients,
                   ingredients_by_name, ingredient_seq, recipes, recipe_seq,
                   issued, retired, threads, redis, clock, backends, last_store>>

NextHash == CallHash

SpecHash == InitHash /\ [][NextHash]_vars

\* C11: the digests that separate calls of hash_password(p) return differ
\* from one another, and verify_password(p, d) is true for each of them.
HashDiffersAndVerifies ==
    call.fn = "hash_password" =>
        /\ \A i \in 1..Len(call.digests), j \in 1..Len(call.digests) :
            i # j => call.digests[i] # call.digests[j]
        /\ \A i \in 1..Len(call.digests) :
            verify_password(call.password, call.digests[i]) = Returns(TRUE)

\* C11 witness: hash_password ran twice on one password, the two digests
\* differ and each verifies.
TwoDigestsOfOnePassword ==
    /\ call.fn = "hash_password"
    /\ Len(call.digests) = 2
    /\ call.digests[1] # call.digests[2]
    /\ verify_password(call.password, call.digests[2]).value

(***************************************************************************)
(* Error documents (errors.py: problem; main.py: the exception handlers)   *)
(***************************************************************************)

HexChars ==
    <<"0", "1", "2", "3", "4", "5", "6", "7", "8", "9", "a", "b", "c", "d", "e", "f">>

\* Two lower-case hexadecimal digits of a byte.
Hex(b) == <<HexChars[(b \div 16) + 1], HexChars[(b % 16) + 1]>>

RECURSIVE HexOf(_, _, _)
HexOf(bytes, from, to) ==
    IF from > to THEN <<>> ELSE Hex(bytes[from]) \o HexOf(bytes, from + 1, to)

\* uuid.uuid4() from its sixteen random bytes: the version nibble becomes 4
\* and the two variant bits 10.
uuid4(random) ==
    [i \in 1..16 |-> IF i = 7 THEN 64 + (random[i] % 16)
                     ELSE IF i = 9 THEN 128 + (random[i] % 64)
                     ELSE random[i]]

\* str(UUID): 8-4-4-4-12 hexadecimal digits.
UuidStr(u) ==
    HexOf(u, 1, 4) \o <<"-">> \o HexOf(u, 5, 6) \o <<"-">> \o HexOf(u, 7, 8)
        \o <<"-">> \o HexOf(u, 9, 10) \o <<"-">> \o HexOf(u, 11, 16)

\* The JSONResponse of a payload.
JSONResponse(payload, status_code) == [status_code |-> status_code, payload |-> payload]

\* errors.problem with the random bytes its uuid4() call draws; extras is a
\* dict whose keys are written over the payload's (dict.update).
problem_payload_static_id(status, title, detail, type_, extras, random) ==
    LET correlation_id == UuidStr(uuid4([i \in 1..16 |-> 0]))
        payload == [type |-> type_, title |-> title, status |-> status,
                    detail |-> detail, correlation_id |-> correlation_id]
    IN JSONResponse(IF extras # EmptyDict THEN extras @@ payload ELSE payload, status)

problem_payload(status, title, detail, type_, extras, random) ==
    LET correlation_id == UuidStr(uuid4(random))
        payload == [type |-> type_, title |-> title, status |-> status,
                    detail |-> detail, correlation_id |-> correlation_id]
    IN JSONResponse(IF extras # EmptyDict THEN extras @@ payload ELSE payload, status)

\* http_exception_handler: the exception's status and its detail, when the
\* detail is a str.
http_exception_handler(exc, random) ==
    problem_payload(exc.status_code, "HTTP " \o ToString(exc.status_code),
                    IF exc.detail_is_str THEN exc.detail ELSE "HTTP error",
                    "about:blank", EmptyDict, random)

\* ".".join(str(loc) for loc in error["loc"])
RECURSIVE JoinWith(_, _)
JoinWith(parts, sep) ==
    IF parts = <<>> THEN ""
    ELSE IF Len(parts) = 1 THEN parts[1]
    ELSE parts[1] \o sep \o JoinWith(Tail(parts), sep)

\* validation_exception_handler: "field: message" for each error, joined by
\* "; ", and the errors themselves under validation_errors.
validation_exception_handler(exc, random) ==
    LET error_details ==
            [i \in 1..Len(exc.errors) |->
                JoinWith(exc.errors[i].loc, ".") \o ": " \o exc.errors[i].msg]
    IN problem_payload(422, "Validation Error", JoinWith(error_details, "; "),
                       "about:blank", [validation_errors |-> exc.errors], random)

\* general_exception_handler with its message written out of the exception.
general_exception_response_echoing(exc, random) ==
    problem_payload(500, "Internal Server Error", exc.text, "about:blank", EmptyDict, random)

\* general_exception_handler: whatever the exception, the same document.
general_exception_response(exc, random) ==
    problem_payload(500, "Internal Server Error",
                    "An unexpected error occurred. Please contact support.",
                    "about:blank", EmptyDict, random)

\* The handler Starlette picks for an exception.
HandleException(exc, random) ==
    IF exc.kind = "HTTPException" THEN http_exception_handler(exc, random)
    ELSE IF exc.kind = "RequestValidationError" THEN validation_exception_handler(exc, random)
    ELSE general_exception_response(exc, random)

(***************************************************************************)
(* State machine: failing requests and their error documents               *)
(***************************************************************************)

\* How many failing requests one run of the model answers.
MaxErrors == 2

\* raise HTTPException(...) as the store and get_current_user raise it, and
\* one whose detail is not a str.
HttpExceptions ==
    { [kind |-> "HTTPException", status_code |-> 404, detail_is_str |-> TRUE,
       detail |-> "Recipe not found"],
      [kind |-> "HTTPException", status_code |-> 401, detail_is_str |-> TRUE,
       detail |-> "Invalid credentials"],
      [kind |-> "HTTPException", status_code |-> 409, detail_is_str |-> FALSE,
       detail |-> "{'code': 7}"] }

\* RequestValidationError with one and with two pydantic errors.
ValidationExceptions ==
    { [kind |-> "RequestValidationError",
       errors |-> << [loc |-> <<"body", "name">>,
                      msg |-> "String should have at least 1 character"] >>],
      [kind |-> "RequestValidationError",
       errors |-> << [loc |-> <<"body", "email">>, msg |-> "Value error, email must contain '@' and domain part"],
                     [loc |-> <<"body", "password">>, msg |-> "String should have at least 8 characters"] >>] }

\* Any other exception that leaves a handler, with the text of str(exc).
OtherExceptions ==
    { [kind |-> "binascii.Error", text |-> "Incorrect padding"],
      [kind |-> "KeyError", text |-> "'password_hash'"],
      [kind |-> "ConnectionError", text |-> "redis://:s3cret@10.0.0.5:6379/0 refused"] }

Exceptions == HttpExceptions \cup ValidationExceptions \cup OtherExceptions

\* os.urandom(16) under uuid4(): 122 of the bits reach the UUID and no two
\* calls share them.
RandomA == [i \in 1..16 |-> (17 * i + 3) % 256]

RandomB == [i \in 1..16 |-> 255]

RandomC == [i \in 1..16 |-> IF i = 16 THEN 1 ELSE 0]

RandomBytes == {RandomA, RandomB, RandomC}

InitErrors ==
    /\ users = EmptyDict
    /\ users_by_email = EmptyDict
    /\ sessions = EmptyDict
    /\ user_seq = 1
    /\ ingredients = EmptyDict
    /\ ingredients_by_name = EmptyDict
    /\ ingredient_seq = 1
    /\ recipes = EmptyDict
    /\ recipe_seq = 1
    /\ issued = {}
    /\ retired = {}
    /\ threads = [t \in Threads |-> IdleThread]
    /\ NoRedis
    /\ call = [fn |-> "problem", log |-> <<>>, drawn |-> {}]

\* A request fails with exc and its handler answers with an error document.
FailRequest(excs) ==
    /\ call.fn = "problem"
    /\ Len(call.log) < MaxErrors
    /\ \E exc \in excs, random \in RandomBytes \ call.drawn :
        call' = [call EXCEPT
                    !.log = Append(@, [exc |-> exc, response |-> HandleException(exc, random)]),
                    !.drawn = @ \cup {random}]
    /\ UNCHANGED <<users, users_by_email, sessions, user_seq, ingredients,
                   ingredients_by_name, ingredient_seq, recipes, recipe_seq,
                   issued, retired, threads, redis, clock, backends, last_store>>

NextErrors ==
    \/ FailRequest(HttpExceptions)
    \/ FailRequest(ValidationExceptions)
    \/ FailRequest(OtherExceptions)

SpecErrors == InitErrors /\ [][NextErrors]_vars

HexSet == Range(HexChars)

\* The canonical text of a version-4 UUID: 36 characters, hyphens at 9, 14,
\* 19 and 24 and nowhere else, hexadecimal digits elsewhere.
CanonicalUuid(text) ==
    /\ Len(text) = 36
    /\ Cardinality({i \in 1..Len(text) : text[i] = "-"}) = 4
    /\ \A i \in 1..Len(text) :
        IF i \in {9, 14, 19, 24} THEN text[i] = "-" ELSE text[i] \in HexSet
    /\ text[15] = "4"
    /\ text[20] \in {"8", "9", "a", "b"}

\* C12: every error document carries a correlation_id in canonical UUID
\* text, and no two error documents of a run share one, also when they
\* answer the same error.
CorrelationIdsFreshAndCanonical ==
    call.fn = "problem" =>
        \A i \in 1..Len(call.log) :
            /\ "correlation_id" \in DOMAIN call.log[i].response.payload
            /\ CanonicalUuid(call.log[i].response.payload.correlation_id)
            /\ \A j \in 1..Len(call.log) :
                i # j => call.log[i].response.payload.correlation_id
                             # call.log[j].response.payload.correlation_id

\* C12 witness: the same error was answered twice, with two ids.
SameErrorTwoIds ==
    /\ call.fn = "problem"
    /\ Len(call.log) = 2
    /\ call.log[1].exc = call.log[2].exc
    /\ call.log[1].response.payload.correlation_id # call.log[2].response.payload.correlation_id

\* The document of an unexpected failure, its correlation_id left out.
MaskedDocument ==
    [type |-> "about:blank", title |-> "Internal Server Error", status |-> 500,
     detail |-> "An unexpected error occurred. Please contact support."]

\* C13: a failure that is neither an HTTPException nor a validation error is
\* answered 500 with the fixed detail, and its document is, the
\* correlation_id apart, the same for every such exception: nothing of the
\* exception is in it.
UnexpectedFailuresMasked ==
    call.fn = "problem" =>
        \A i \in 1..Len(call.log) :
            call.log[i].exc.kind \notin {"HTTPException", "RequestValidationError"} =>
                \E r \in {call.log[i].response} :
                    /\ r.status_code = 500
                    /\ DOMAIN r.payload = DOMAIN MaskedDocument \cup {"correlation_id"}
                    /\ \A k \in DOMAIN MaskedDocument : r.payload[k] = MaskedDocument[k]
                    /\ r.payload.detail # call.log[i].exc.text

\* C13 witness: two different unexpected exceptions were answered, and the
\* two documents differ in the correlation_id alone.
TwoUnexpectedSameDocument ==
    /\ call.fn = "problem"
    /\ Len(call.log) = 2
    /\ call.log[1].exc.kind = "binascii.Error"
    /\ call.log[2].exc.kind = "ConnectionError"
    /\ [call.log[1].response.payload EXCEPT !.correlation_id = <<>>]
           = [call.log[2].response.payload EXCEPT !.correlation_id = <<>>]
    /\ call.log[1].response.payload # call.log[2].response.payload

(***************************************************************************)
(* Session backends (session_backend.py) and the key-value service        *)
(***************************************************************************)

\* str.rstrip(":")
RECURSIVE RStripColon(_)
RStripColon(s) ==
    IF s # <<>> /\ s[Len(s)] = ":" THEN RStripColon(SubSeq(s, 1, Len(s) - 1)) ELSE s

\* After "[" in a glob pattern: is the class negated, where do its members
\* start, and where is the "]" that closes it (past the end when none does).
ClassOf(pattern) ==
    LET negated == Len(pattern) >= 2 /\ pattern[2] = "^"
        first == IF negated THEN 3 ELSE 2
        closers == {i \in first..Len(pattern) : pattern[i] = "]"}
        close == IF closers = {} THEN Len(pattern) + 1
                 ELSE CHOOSE i \in closers : \A j \in closers : i <= j
    IN [negated |-> negated,
        members |-> {pattern[i] : i \in first..(close - 1)},
        rest |-> SubSeq(pattern, close + 1, Len(pattern))]

\* The glob matching of the service's SCAN ... MATCH: "*" any run of
\* characters, "?" any one character, "[...]" one character of a class,
\* any other character itself. The patterns of the model hold no backslash
\* and no range.
RECURSIVE GlobMatch(_, _)
GlobMatch(pattern, key) ==
    IF pattern = <<>> THEN key = <<>>
    ELSE IF pattern[1] = "*"
        THEN \E k \in 0..Len(key) : GlobMatch(Tail(pattern), SubSeq(key, k + 1, Len(key)))
    ELSE IF key = <<>> THEN FALSE
    ELSE IF pattern[1] = "?" THEN GlobMatch(Tail(pattern), Tail(key))
    ELSE IF pattern[1] = "["
        THEN LET class == ClassOf(pattern) IN
             /\ (key[1] \in class.members) # class.negated
             /\ GlobMatch(class.rest, Tail(key))
    ELSE pattern[1] = key[1] /\ GlobMatch(Tail(pattern), Tail(key))

\* str(n) of an int.
RECURSIVE NatToStr(_)
NatToStr(n) ==
    IF n < 10 THEN <<DigitChars[n + 1]>>
    ELSE NatToStr(n \div 10) \o <<DigitChars[(n % 10) + 1]>>

IntToStr(n) == IF n < 0 THEN <<"-">> \o NatToStr(0 - n) ELSE NatToStr(n)

RECURSIVE DigitsValue(_, _)
DigitsValue(digits, acc) ==
    IF digits = <<>> THEN acc
    ELSE DigitsValue(Tail(digits), 10 * acc + (IndexOf(DigitChars, Head(digits)) - 1))

\* int(text): blanks around the number, a sign, decimal digits with single
\* underscores between them; anything else raises ValueError.
PyInt(text) ==
    LET t == Strip(text)
        signed == t # <<>> /\ t[1] \in {"+", "-"}
        body == IF signed THEN Tail(t) ELSE t
        wellFormed ==
            /\ body # <<>>
            /\ \A i \in 1..Len(body) :
                \/ IsDigit(body[i])
                \/ /\ body[i] = "_"
                   /\ 1 < i /\ i < Len(body)
                   /\ IsDigit(body[i - 1]) /\ IsDigit(body[i + 1])
        magnitude == DigitsValue(SelectSeq(body, LAMBDA c : c # "_"), 0)
    IN IF ~wellFormed THEN [ok |-> FALSE, value |-> 0]
       ELSE [ok |-> TRUE,
             value |-> IF signed /\ t[1] = "-" THEN 0 - magnitude ELSE magnitude]

\* The keys of the service that have not expired at time now.
LiveKeys(data, now) == {k \in DOMAIN data : now < data[k].expire_at}

\* SET key value EX seconds
redis_set(data, key, value, ex, now) == Put(data, key, [value |-> value, expire_at |-> now + ex])

\* GET key: None for an absent or expired key.
redis_get(data, key, now) == IF key \in LiveKeys(data, now) THEN Some(data[key].value) ELSE None

\* SCAN with MATCH pattern, to the end of the iteration.
redis_scan_iter(data, match, now) == {k \in LiveKeys(data, now) : GlobMatch(match, k)}

\* DEL key [key ...]
redis_delete(data, keys) == [k \in DOMAIN data \ keys |-> data[k]]

\* RedisSessionBackend._key
_key(self, token) == self.prefix \o <<":">> \o token

\* What a backend method does to the service: the data it leaves, its
\* return value, and the exception when the service cannot be reached.
Done(data, value) == [raises |-> None, data |-> data, value |-> value]

Unreachable(data) == [raises |-> Some("ConnectionError"), data |-> data, value |-> None]

\* RedisSessionBackend.store_token
store_token(self, service, token, user_id, now) ==
    IF ~service.up THEN Unreachable(service.data)
    ELSE Done(redis_set(service.data, _key(self, token), IntToStr(user_id), self.ttl, now), None)

\* resolve_token that starts the TTL again on every read.
resolve_token_sliding(self, service, token, now) ==
    IF ~service.up THEN Unreachable(service.data)
    ELSE LET value == redis_get(service.data, _key(self, token), now) IN
         IF value = None THEN Done(service.data, None)
         ELSE Done(redis_set(service.data, _key(self, token), value[1], self.ttl, now),
                   Some(PyInt(value[1]).value))

\* RedisSessionBackend.resolve_token
resolve_token(self, service, token, now) ==
    IF ~service.up THEN Unreachable(service.data)
    ELSE LET value == redis_get(service.data, _key(self, token), now) IN
         IF value = None THEN Done(service.data, None)
         ELSE IF ~PyInt(value[1]).ok
             THEN [raises |-> Some("ValueError"), data |-> service.data, value |-> None]
         ELSE Done(service.data, Some(PyInt(value[1]).value))

\* RedisSessionBackend.reset
backend_reset(self, service, now) ==
    IF ~service.up THEN Unreachable(service.data)
    ELSE LET pattern == self.prefix \o <<":", "*">>
             keys == redis_scan_iter(service.data, pattern, now)
         IN Done(IF keys # {} THEN redis_delete(service.data, keys) ELSE service.data, None)

\* The first half of reset: list(self._client.scan_iter(match=pattern)).
reset_scan(self, service, now) ==
    IF ~service.up THEN Unreachable(service.data)
    ELSE Done(service.data, redis_scan_iter(service.data, self.prefix \o <<":", "*">>, now))

\* The second half of reset that deletes whatever matches the pattern by
\* then, the listed keys or not.
reset_delete_matching(self, service, keys, now) ==
    IF ~service.up THEN Unreachable(service.data)
    ELSE Done(redis_delete(service.data,
                           keys \cup redis_scan_iter(service.data, self.prefix \o <<":", "*">>, now)),
              None)

\* The second half of reset: if keys: self._client.delete(*keys).
reset_delete(self, service, keys, now) ==
    IF keys = {} THEN Done(service.data, None)
    ELSE IF ~service.up THEN Unreachable(service.data)
    ELSE Done(redis_delete(service.data, keys), None)

\* What a constructor call does: the exception or the object, and the calls
\* it made on the client library on the way.
Failed(exception, effects) == [raises |-> Some(exception), object |-> None, effects |-> effects]

Constructed(object, effects) == [raises |-> None, object |-> Some(object), effects |-> effects]

\* The constructor without its ping: the connection is made at first use.
RedisSessionBackend_lazy(url, prefix, ttl_seconds, client, up) ==
    IF ttl_seconds <= 0 THEN Failed("ValueError", <<>>)
    ELSE Constructed([kind |-> "redis", prefix |-> RStripColon(prefix), ttl |-> ttl_seconds],
                     IF client # None THEN <<>> ELSE <<"from_url">>)

\* RedisSessionBackend(url, prefix, ttl_seconds, client), with the redis
\* package installed; up tells whether the service answers the ping.
RedisSessionBackend(url, prefix, ttl_seconds, client, up) ==
    IF ttl_seconds <= 0 THEN Failed("ValueError", <<>>)
    ELSE LET made == IF client # None THEN <<>> ELSE <<"from_url">> IN
         IF ~up THEN Failed("ConnectionError", made \o <<"ping">>)
         ELSE Constructed([kind |-> "redis", prefix |-> RStripColon(prefix),
                           ttl |-> ttl_seconds],
                          made \o <<"ping">>)

\* os.getenv(name, default)
getenv(env, name, default) == IF env[name] = None THEN default ELSE env[name][1]

\* create_session_backend_from_env
create_session_backend_from_env(env, up) ==
    LET backend_name ==
            Lower(Strip(getenv(env, "SESSION_BACKEND", <<"m", "e", "m", "o", "r", "y">>)))
    IN IF backend_name = <<"r", "e", "d", "i", "s">>
           THEN LET redis_url == getenv(env, "REDIS_URL", <<"r", "e", "d", "i", "s", ":", "/", "/">>)
                    prefix == getenv(env, "SESSION_KEY_PREFIX",
                                     <<"r", "e", "c", "i", "p", "e", "-", "s", "e", "s", "s", "i", "o", "n">>)
                    ttl_raw == getenv(env, "SESSION_TTL_SECONDS", <<"3", "6", "0", "0">>)
                    ttl_seconds == PyInt(ttl_raw)
                IN IF ~ttl_seconds.ok THEN Failed("ValueError", <<>>)
                   ELSE RedisSessionBackend(redis_url, prefix, ttl_seconds.value, None, up)
       ELSE Constructed([kind |-> "memory"], <<>>)

(***************************************************************************)
(* State machine: RedisSessionBackend objects sharing one service          *)
(***************************************************************************)

\* How many backends are constructed on the shared service.
MaxBackends == 2

\* How far the service's clock runs.
MaxClock == 3

\* SESSION_KEY_PREFIX values: a plain one, the same with the ":" that the
\* constructor strips, one that extends it, one with a character class.
PrefixApp == <<"a", "p", "p">>

PrefixAppColon == <<"a", "p", "p", ":">>

PrefixAppV2 == <<"a", "p", "p", ":", "v", "2">>

PrefixClass == <<"a", "[", "p", "]", "p">>

Prefixes == {PrefixApp, PrefixAppColon, PrefixAppV2, PrefixClass}

\* ttl_seconds given to the constructor.
TtlValues == {-1, 0, 1, 2}

\* The client argument: None, or a client made by the caller.
Clients == {None, Some("client")}

RedisUrl == <<"r", "e", "d", "i", "s", ":", "/", "/", "h">>

\* Tokens and user ids handed to store_token.
SessionTokens == {Token(1), Token(2)}

SessionUserIds == {1, 12}

\* The environment of create_session_backend_from_env.
Env(backend, prefix, ttl) ==
    [SESSION_BACKEND |-> backend, REDIS_URL |-> Some(RedisUrl),
     SESSION_KEY_PREFIX |-> prefix, SESSION_TTL_SECONDS |-> ttl]

EnvRedis == Some(<<" ", "R", "e", "d", "i", "s">>)

Envs ==
    {Env(b, Some(PrefixApp), t) :
        b \in {None, EnvRedis},
        t \in {Some(<<"2">>), Some(<<" ", "1", " ">>), Some(<<"a", "b", "c">>), Some(<<"0">>)}}

\* RedisSessionBackend(...) is called; the object joins the others.
Construct ==
    \E prefix \in Prefixes, ttl_seconds \in TtlValues, client \in Clients :
        \E r \in {RedisSessionBackend(RedisUrl, prefix, ttl_seconds, client, redis.up)} :
            /\ r.object # None => Cardinality(backends \cup {r.object[1]}) <= MaxBackends
            /\ backends' = IF r.object # None THEN backends \cup {r.object[1]} ELSE backends
            /\ UNCHANGED <<users, users_by_email, sessions, user_seq, ingredients,
                           ingredients_by_name, ingredient_seq, recipes, recipe_seq,
                           issued, retired, threads, call, redis, clock, last_store>>

\* create_session_backend_from_env() is called.
ConstructFromEnv ==
    \E env \in Envs :
        \E r \in {create_session_backend_from_env(env, redis.up)} :
            \E made \in {IF r.object # None /\ r.object[1].kind = "redis"
                             THEN {r.object[1]} ELSE {}} :
                /\ Cardinality(backends \cup made) <= MaxBackends
                /\ backends' = backends \cup made
                /\ UNCHANGED <<users, users_by_email, sessions, user_seq, ingredients,
                               ingredients_by_name, ingredient_seq, recipes, recipe_seq,
                               issued, retired, threads, call, redis, clock, last_store>>

\* backend.store_token(token, user_id)
StoreToken ==
    \E self \in backends, token \in SessionTokens, user_id \in SessionUserIds :
        \E r \in {store_token(self, redis, token, user_id, clock)} :
            /\ redis' = [redis EXCEPT !.data = r.data]
            /\ last_store' =
                   IF r.raises # None THEN last_store
                   ELSE Put(last_store, _key(self, token),
                            [at |-> clock, user_id |-> user_id, ttl |-> self.ttl])
            /\ UNCHANGED <<users, users_by_email, sessions, user_seq, ingredients,
                           ingredients_by_name, ingredient_seq, recipes, recipe_seq,
                           issued, retired, threads, call, clock, backends>>

\* backend.resolve_token(token)
ResolveToken ==
    \E self \in backends, token \in SessionTokens :
        \E r \in {resolve_token(self, redis, token, clock)} :
            /\ redis' = [redis EXCEPT !.data = r.data]
            /\ UNCHANGED <<users, users_by_email, sessions, user_seq, ingredients,
                           ingredients_by_name, ingredient_seq, recipes, recipe_seq,
                           issued, retired, threads, call, clock, backends, last_store>>

\* backend.reset()
ResetBackend ==
    \E self \in backends :
        \E r \in {backend_reset(self, redis, clock)} :
            /\ redis' = [redis EXCEPT !.data = r.data]
            /\ last_store' = [k \in DOMAIN last_store \cap DOMAIN r.data |-> last_store[k]]
            /\ UNCHANGED <<users, users_by_email, sessions, user_seq, ingredients,
                           ingredients_by_name, ingredient_seq, recipes, recipe_seq,
                           issued, retired, threads, call, clock, backends>>

\* A second passes; the service drops the keys that expire.
Tick ==
    /\ clock < MaxClock
    /\ clock' = clock + 1
    /\ redis' = [redis EXCEPT !.data = [k \in LiveKeys(redis.data, clock + 1) |-> redis.data[k]]]
    /\ UNCHANGED <<users, users_by_email, sessions, user_seq, ingredients,
                   ingredients_by_name, ingredient_seq, recipes, recipe_seq,
                   issued, retired, threads, call, backends, last_store>>

\* The service stops or starts answering.
Outage ==
    /\ redis' = [redis EXCEPT !.up = ~redis.up]
    /\ UNCHANGED <<users, users_by_email, sessions, user_seq, ingredients,
                   ingredients_by_name, ingredient_seq, recipes, recipe_seq,
                   issued, retired, threads, call, clock, backends, last_store>>

NextRedis ==
    \/ Construct
    \/ ConstructFromEnv
    \/ StoreToken
    \/ ResolveToken
    \/ ResetBackend
    \/ Outage

SpecRedis == Init /\ [][NextRedis]_vars

\* The keys a backend writes for the tokens of the model.
KeysOf(self) == {_key(self, token) : token \in SessionTokens}

\* The service once backend.reset() has run.
AfterReset(self) == [redis EXCEPT !.data = backend_reset(self, redis, clock).data]

\* C14: after reset no token stored through the backend resolves, and every
\* other key of the service, such as a session key that a backend with
\* another prefix wrote, is still there with its value.
ResetLeavesOtherPrefixes ==
    \A self \in backends :
        redis.up =>
            /\ \A token \in SessionTokens :
                resolve_token(self, AfterReset(self), token, clock).value = None
            /\ \A k \in LiveKeys(redis.data, clock) \ KeysOf(self) :
                /\ k \in DOMAIN AfterReset(self).data
                /\ AfterReset(self).data[k] = redis.data[k]

(***************************************************************************)
(* State machine: store_token and resolve_token as time passes             *)
(***************************************************************************)

\* Three deployed backends: two share a prefix and differ in TTL, the third
\* has a prefix and a TTL of its own.
DeployedBackends ==
    { [kind |-> "redis", prefix |-> PrefixApp, ttl |-> 2],
      [kind |-> "redis", prefix |-> PrefixApp, ttl |-> 1],
      [kind |-> "redis", prefix |-> PrefixAppV2, ttl |-> 1] }

InitTtl ==
    /\ users = EmptyDict
    /\ users_by_email = EmptyDict
    /\ sessions = EmptyDict
    /\ user_seq = 1
    /\ ingredients = EmptyDict
    /\ ingredients_by_name = EmptyDict
    /\ ingredient_seq = 1
    /\ recipes = EmptyDict
    /\ recipe_seq = 1
    /\ issued = {}
    /\ retired = {}
    /\ threads = [t \in Threads |-> IdleThread]
    /\ call = NoCall
    /\ redis = [up |-> TRUE, data |-> EmptyDict]
    /\ clock = 0
    /\ backends = DeployedBackends
    /\ last_store = EmptyDict

NextTtl ==
    \/ StoreToken
    \/ ResolveToken
    \/ Tick

SpecTtl == InitTtl /\ [][NextTtl]_vars

TtlTexts ==
    { <<"2">>, <<" ", "1", " ">>, <<"a", "b", "c">>, <<>>, <<"1", ".", "5">>,
      <<"0">>, <<"-", "3">>, <<"+", "2">>, <<"2", "s">>, <<" ">> }

\* A text that is a decimal integer: blanks, a sign, digits.
IsDecimal(text) ==
    \E t \in {Strip(text)} :
        \E body \in {IF t # <<>> /\ t[1] \in {"+", "-"} THEN Tail(t) ELSE t} :
            body # <<>> /\ \A i \in 1..Len(body) : IsDigit(body[i])

\* The sign of a decimal integer text.
IsPositiveDecimal(text) ==
    /\ IsDecimal(text)
    /\ Strip(text)[1] # "-"
    /\ \E i \in 1..Len(text) : IsDigit(text[i]) /\ text[i] # "0"

\* C16: the constructor raises ValueError for a TTL that is not positive
\* before it makes or contacts a client, and raises from its ping when the
\* service does not answer; it returns a backend only when neither happens.
\* The factory, asked for the redis backend, raises ValueError for a
\* SESSION_TTL_SECONDS that is no integer, and otherwise fails as the
\* constructor does.
ConstructionFailsFast ==
    /\ \A prefix \in Prefixes, ttl_seconds \in TtlValues, client \in Clients :
        \E r \in {RedisSessionBackend(RedisUrl, prefix, ttl_seconds, client, redis.up)} :
            /\ ttl_seconds <= 0 => r = Failed("ValueError", <<>>)
            /\ (ttl_seconds > 0 /\ ~redis.up) =>
                /\ r.raises = Some("ConnectionError")
                /\ r.object = None
                /\ r.effects[Len(r.effects)] = "ping"
            /\ r.object # None => (ttl_seconds > 0 /\ redis.up /\ r.raises = None)
    /\ \A text \in TtlTexts, prefix \in {None, Some(PrefixApp)} :
        \E r \in {create_session_backend_from_env(Env(EnvRedis, prefix, Some(text)), redis.up)} :
            /\ ~IsDecimal(text) => r = Failed("ValueError", <<>>)
            /\ (IsDecimal(text) /\ ~IsPositiveDecimal(text)) => r = Failed("ValueError", <<>>)
            /\ (IsPositiveDecimal(text) /\ ~redis.up) =>
                (r.raises = Some("ConnectionError") /\ r.object = None)
            /\ r.object # None => (IsPositiveDecimal(text) /\ redis.up)

\* C16 witness: the service is down while a backend constructed earlier
\* exists, so a constructor call now fails at its ping, and one with TTL 0
\* fails before it.
ConstructedThenOutage ==
    /\ backends # {}
    /\ ~redis.up
    /\ RedisSessionBackend(RedisUrl, PrefixApp, 2, None, redis.up)
           = Failed("ConnectionError", <<"from_url", "ping">>)
    /\ RedisSessionBackend(RedisUrl, PrefixApp, 0, None, redis.up) = Failed("ValueError", <<>>)

(***************************************************************************)
(* State machine: the recipes of two signed-in users                       *)
(***************************************************************************)

\* How many recipes create_recipe stores when the model explores listings.
MaxListed == 3

\* __init__: the store of a fresh process.
FreshStore ==
    [users |-> EmptyDict, users_by_email |-> EmptyDict, sessions |-> EmptyDict,
     user_seq |-> 1, ingredients |-> EmptyDict, ingredients_by_name |-> EmptyDict,
     ingredient_seq |-> 1, recipes |-> EmptyDict, recipe_seq |-> 1]

\* The store after both accounts registered and logged in and the first of
\* them created the ingredients Salt and Rice.
AliceRegistered ==
    register_user(FreshStore, [email |-> EmailAlice, password |-> PwAlice], SaltA).st

BothRegistered ==
    register_user(AliceRegistered, [email |-> EmailBob, password |-> PwBob], SaltA).st

AliceLoggedIn ==
    login_user(BothRegistered, [email |-> EmailAlice, password |-> PwAlice], Token(1)).st

BothLoggedIn ==
    login_user(AliceLoggedIn, [email |-> EmailBob, password |-> PwBob], Token(2)).st

SaltStored ==
    create_ingredient(BothLoggedIn, Bearer(Token(1)), [name |-> <<"S", "a", "l", "t">>]).st

SignedIn ==
    create_ingredient(SaltStored, Bearer(Token(1)), [name |-> <<"R", "i", "c", "e">>]).st

InitRecipes ==
    /\ \E S \in {SignedIn} :
        /\ users = S.users
        /\ users_by_email = S.users_by_email
        /\ sessions = S.sessions
        /\ user_seq = S.user_seq
        /\ ingredients = S.ingredients
        /\ ingredients_by_name = S.ingredients_by_name
        /\ ingredient_seq = S.ingredient_seq
        /\ recipes = S.recipes
        /\ recipe_seq = S.recipe_seq
    /\ issued = {Token(1), Token(2)}
    /\ retired = {}
    /\ threads = [t \in Threads |-> IdleThread]
    /\ NoRedis
    /\ call = NoCall

\* Recipe bodies with one ingredient, with two, and with an unknown one.
ListedCreateBodies ==
    [title : { <<"S", "o", "u", "p">> }, steps : { <<"B", "o", "i", "l">> },
     ingredients : { <<Item(1, <<"g">>)>>, <<Item(2, <<"k", "g">>)>>,
                     <<Item(2, <<"k", "g">>), Item(1, <<"g">>)>>, <<Item(3, <<"g">>)>> }]

CreateListedRecipe ==
    \E credentials \in ProtectedHeaders, raw \in ListedCreateBodies :
        \E r \in {create_recipe(Store, credentials, raw)} :
            /\ r.resp.status = 201 => recipe_seq <= MaxListed
            /\ Commit(r)
            /\ UNCHANGED <<issued, retired, threads, call, redis, clock, backends, last_store>>

NextRecipes ==
    \/ CreateListedRecipe
    \/ ListRecipes
    \/ UpdateRecipe
    \/ DeleteRecipe

SpecRecipes == InitRecipes /\ [][NextRecipes]_vars

\* The ?ingredient= values probed: none, empty, spellings of stored names,
\* a name nobody stored, blanks.
ListProbes ==
    {None, Some(<<>>), Some(<<"S", "A", "L", "T", " ">>), Some(<<"s", "a", "l", "t">>),
     Some(<<" ", "r", "I", "C", "E">>), Some(<<"o", "i", "l">>), Some(<<" ">>),
     Some(<<"S", "a", "l", "t", "s">>)}

\* The recipes the listing is to hold, read off the stored recipes and the
\* stored ingredients' names.
ListedFor(owner_id, filter) ==
    {recipes[id] : id \in
        {id \in DOMAIN recipes :
            /\ recipes[id].owner_id = owner_id
            /\ filter # None =>
                 \E g \in DOMAIN ingredients :
                     /\ Folded(ingredients[g].name) = Folded(filter[1])
                     /\ \E i \in 1..Len(recipes[id].ingredients) :
                            recipes[id].ingredients[i].ingredient_id = g}}

\* A listing holds each recipe once, in the order of the ids.
InIdOrder(list) == \A i, j \in 1..Len(list) : i < j => list[i].id < list[j].id

\* C17: list_recipes returns exactly the caller's recipes: all of them
\* without a filter; with a filter those that contain the ingredient whose
\* trimmed, case-folded name equals the trimmed, case-folded filter, and
\* none when no ingredient has that name; never a recipe of another user;
\* and the store is as before. (GET /recipes refuses an empty filter.)
ListRecipesExact ==
    /\ \A owner_id \in 1..3, filter \in ListProbes \ {Some(<<>>)} :
        \E list \in {store_list_recipes(Store, owner_id, filter)} :
            /\ InIdOrder(list)
            /\ {list[i] : i \in 1..Len(list)} = ListedFor(owner_id, filter)
            /\ \A i \in 1..Len(list) : list[i].owner_id = owner_id
    /\ \A token \in DOMAIN sessions, filter \in ListProbes :
        \E r \in {list_recipes(Store, Bearer(token), filter)} :
            /\ r.st = Store
            /\ IF filter = Some(<<>>) THEN r.resp.status = 422
               ELSE /\ r.resp.status = 200
                    /\ r.resp.body = store_list_recipes(Store, sessions[token], filter)

\* C17 witness: the caller owns a recipe with Salt and one without, another
\* user owns one with Salt, and the caller's listing filtered by "SALT " is
\* the one recipe, while the unfiltered listing has two.
FilteredListingIsProperPart ==
    \E token \in DOMAIN sessions, other \in DOMAIN recipes :
        /\ recipes[other].owner_id # sessions[token]
        /\ \E i \in 1..Len(recipes[other].ingredients) :
               recipes[other].ingredients[i].ingredient_id = 1
        /\ Len(list_recipes(Store, Bearer(token), Some(<<"S", "A", "L", "T", " ">>)).resp.body) = 1
        /\ Len(list_recipes(Store, Bearer(token), None).resp.body) = 2

(***************************************************************************)
(* Rejected operations                                                     *)
(***************************************************************************)

\* The six operations that change the store, one request at a time.
NextRejects ==
    \/ Register(OwnerBodies, {SaltA})
    \/ Login(OwnerLoginBodies)
    \/ CreateIngredient
    \/ CreateRecipe
    \/ UpdateRecipe
    \/ DeleteRecipe

SpecRejects == Init /\ [][NextRejects]_vars

\* The response is an error document.
Rejected(r) == r.resp.status >= 400

\* Bodies of POST /auth/login: right and wrong passwords of stored and
\* unknown addresses, a malformed address, a password that is too short.
RejectLoginBodies ==
    OwnerLoginBodies
    \cup { [email |-> EmailAliceRaw, password |-> PwNoDigit],
           [email |-> EmailNoAt, password |-> PwAlice],
           [email |-> EmailBob, password |-> PwShort] }

\* C18: whenever create_user, authenticate_user, create_ingredient,
\* create_recipe, update_recipe or delete_recipe, or the endpoint in front
\* of it, ends in an error, the users, the email index, the sessions, the
\* ingredients, the recipes and the three id counters are as before the call.
RejectedCallChangesNothing ==
    /\ \A raw \in RegisterBodies :
        \E r \in {IF UserRegister(raw).ok
                      THEN create_user(Store, UserRegister(raw).value, SaltB)
                      ELSE register_user(Store, raw, SaltB)} :
            Rejected(r) => r.st = Store
    /\ \A raw \in RejectLoginBodies, token \in {Token(NumTokens)} :
        \E r \in {IF UserLogin(raw).ok
                      THEN authenticate_user(Store, UserLogin(raw).value, token)
                      ELSE login_user(Store, raw, token)} :
            Rejected(r) => r.st = Store
    /\ \A raw \in ProbeNames :
        IngredientCreate(raw).ok =>
            \E r \in {store_create_ingredient(Store, IngredientCreate(raw).value)} :
                Rejected(r) => r.st = Store
    /\ \A credentials \in ProtectedHeaders, raw \in IngredientBodies :
        \E r \in {create_ingredient(Store, credentials, raw)} : Rejected(r) => r.st = Store
    /\ \A list \in ProbeLists, owner_id \in 1..2 :
        \E r \in {store_create_recipe(Store, CreatePayload(list), owner_id)} :
            Rejected(r) => r.st = Store
    /\ \A credentials \in ProtectedHeaders, raw \in RecipeCreateBodies :
        \E r \in {create_recipe(Store, credentials, raw)} : Rejected(r) => r.st = Store
    /\ \A recipe_id \in DOMAIN recipes \cup {recipe_seq}, owner_id \in 1..2 :
        /\ \E r \in {store_delete_recipe(Store, recipe_id, owner_id)} : Rejected(r) => r.st = Store
        /\ \A payload \in UpdatePayloads \cup {IngredientsPayload(list) : list \in ProbeLists} :
            \E r \in {store_update_recipe(Store, recipe_id, owner_id, payload)} :
                Rejected(r) => r.st = Store
    /\ \A credentials \in ProtectedHeaders, recipe_id \in DOMAIN recipes \cup {recipe_seq} :
        /\ \E r \in {delete_recipe(Store, credentials, recipe_id)} : Rejected(r) => r.st = Store
        /\ \A raw \in RecipeUpdateBodies :
            \E r \in {update_recipe(Store, credentials, recipe_id, raw)} :
                Rejected(r) => r.st = Store

\* C18 witness: with a user, an ingredient and a recipe stored, each of the
\* six operations is rejected: a second register of the email, a login with
\* another password, a respelled ingredient, a recipe whose second
\* ingredient is unknown, an update to an unknown ingredient and a delete of
\* an id no recipe has.
EveryOperationRejected ==
    /\ users # EmptyDict /\ ingredients # EmptyDict /\ recipes # EmptyDict
    /\ create_user(Store, [email |-> EmailAlice, password |-> PwAlice], SaltA).resp.status = 409
    /\ authenticate_user(Store, [email |-> EmailAlice, password |-> PwBob], Token(NumTokens)).resp.status = 401
    /\ store_create_ingredient(Store, [name |-> <<"S", "A", "L", "T">>]).resp.status = 409
    /\ store_create_recipe(Store, CreatePayload(<<Item(1, <<"g">>), Item(3, <<"g">>)>>), 1).resp.status = 422
    /\ \E id \in DOMAIN recipes :
        store_update_recipe(Store, id, recipes[id].owner_id,
                            IngredientsPayload(<<Item(3, <<"g">>)>>)).resp.status = 422
    /\ store_delete_recipe(Store, recipe_seq, 1).resp.status = 404

(***************************************************************************)
(* State machine: three addresses register, log in, and the store resets   *)
(***************************************************************************)

EmailCarol == <<"c", "@", "d", ".", "e">>

\* Bodies of POST /auth/register: three addresses, one of them in two
\* spellings, a malformed one; a password the policy accepts and one it
\* refuses.
UserBodies ==
    [email : {EmailAlice, EmailAliceRaw, EmailBob, EmailCarol, EmailNoAt},
     password : {PwAlice, PwNoDigit}]

\* Bodies of POST /auth/login: the right and a wrong password.
UserLoginBodies ==
    [email : {EmailAlice, EmailBob, EmailCarol}, password : {PwAlice, PwBob}]

NextUsers ==
    \/ Register(UserBodies, {SaltA})
    \/ Login(UserLoginBodies)
    \/ Reset

SpecUsers == Init /\ [][NextUsers]_vars

\* The ids handed out since the last reset are 1, 2, ..., one per stored
\* user, and the counter holds the next one.
IdsCountedFromOne ==
    /\ DOMAIN users = 1..Cardinality(DOMAIN users)
    /\ user_seq = Cardinality(DOMAIN users) + 1
    /\ \A id \in DOMAIN users : users[id].id = id

\* What register answers now: a success returns the id after the last one
\* handed out and advances the counter by one; a failure leaves the counter
\* and the users.
RegisterTakesNextId ==
    \A raw \in UserBodies :
        \E r \in {register_user(Store, raw, SaltB)} :
            IF r.resp.status = 201
                THEN /\ r.resp.body.id = Cardinality(DOMAIN users) + 1
                     /\ r.resp.body.id \notin DOMAIN users
                     /\ r.st.user_seq = r.resp.body.id + 1
                     /\ DOMAIN r.st.users = DOMAIN users \cup {r.resp.body.id}
                ELSE /\ r.resp.status \in {409, 422}
                     /\ r.st.user_seq = user_seq
                     /\ r.st.users = users

\* What reset does now: the counter restarts, and the register after it
\* returns id 1.
ResetRestartsIds ==
    /\ reset(Store).user_seq = 1
    /\ reset(Store).users = EmptyDict
    /\ \A raw \in UserBodies :
        UserRegister(raw).ok =>
            \E r \in {register_user(reset(Store), raw, SaltB)} :
                r.resp.status = 201 /\ r.resp.body.id = 1

\* One request: the users and the counter stay, or one user is added under
\* the counter's value and the counter moves up by one, or both restart.
UserIdStep ==
    \/ users' = users /\ user_seq' = user_seq
    \/ /\ user_seq' = user_seq + 1
       /\ DOMAIN users' = DOMAIN users \cup {user_seq}
       /\ user_seq \notin DOMAIN users
       /\ \A id \in DOMAIN users : users'[id] = users[id]
    \/ users' = EmptyDict /\ user_seq' = 1

\* C19: user ids come from a counter that starts at 1 and goes up by one
\* with each successful register: between two resets the k-th successful
\* register returns id k, no id is assigned twice, a failed register leaves
\* the counter, and after reset the first register returns id 1.
UserIdsCountUp ==
    /\ [](IdsCountedFromOne /\ RegisterTakesNextId /\ ResetRestartsIds)
    /\ [][UserIdStep]_vars

\* C19 witness: after a reset that retired a session, two users hold ids 1
\* and 2, the third address is about to receive id 3, and a register of a
\* stored address is refused.
ThirdIdAfterReset ==
    /\ retired # {}
    /\ DOMAIN users = {1, 2}
    /\ \E r \in {register_user(Store, [email |-> EmailCarol, password |-> PwAlice], SaltA)} :
        r.resp.status = 201 /\ r.resp.body.id = 3
    /\ \E raw \in UserBodies : register_user(Store, raw, SaltA).resp.status = 409

(***************************************************************************)
(* Sessions                                                                *)
(***************************************************************************)

\* The store a call leaves holds every session the store holds now, bound
\* as it is now.
KeepsSessions(r) ==
    \A t \in DOMAIN sessions : t \in DOMAIN r.st.sessions /\ r.st.sessions[t] = sessions[t]

\* Every token issued since the last reset is a session and resolves to the
\* user it is bound to.
IssuedTokensResolve ==
    \A t \in issued \ retired :
        /\ t \in DOMAIN sessions
        /\ get_user_by_token(Store, t).ok
        /\ get_user_by_token(Store, t).resp.body.id = sessions[t]
        /\ read_current_user(Store, Bearer(t)).resp.status = 200
        /\ read_current_user(Store, Bearer(t)).resp.body.id = sessions[t]

\* Whatever is called now, except reset, keeps the sessions: register, a
\* failed or successful login of any user, reading the current user, the
\* ingredient and recipe endpoints.
CallsKeepSessions ==
    /\ \A raw \in RegisterBodies : KeepsSessions(register_user(Store, raw, SaltB))
    /\ \A raw \in LoginBodies, token \in TokenPool \ issued :
        KeepsSessions(login_user(Store, raw, token))
    /\ \A credentials \in Headers : KeepsSessions(read_current_user(Store, credentials))
    /\ \A credentials \in ProtectedHeaders :
        /\ \A raw \in IngredientBodies : KeepsSessions(create_ingredient(Store, credentials, raw))
        /\ \A raw \in RecipeCreateBodies : KeepsSessions(create_recipe(Store, credentials, raw))
        /\ \A filter \in IngredientFilters : KeepsSessions(list_recipes(Store, credentials, filter))
        /\ \A recipe_id \in RecipeIds :
            /\ KeepsSessions(get_recipe(Store, credentials, recipe_id))
            /\ KeepsSessions(delete_recipe(Store, credentials, recipe_id))
            /\ \A raw \in RecipeUpdateBodies :
                KeepsSessions(update_recipe(Store, credentials, recipe_id, raw))

\* One request that is no reset of a store with sessions keeps every
\* session, bound as it was.
SessionStep ==
    retired' = retired =>
        \A t \in DOMAIN sessions : t \in DOMAIN sessions' /\ sessions'[t] = sessions[t]

\* C20: a token issued by a successful login stays active and bound to the
\* same user in every later state until reset: no register, no login, no
\* resolve and no ingredient or recipe operation retires or rebinds it.
TokenBoundUntilReset ==
    /\ [](IssuedTokensResolve /\ CallsKeepSessions)
    /\ [][SessionStep]_vars

\* C20 witness: two tokens of one user are active at the same time, both
\* resolve to that user, and since the first login a recipe was created.
TwoSessionsOfOneUser ==
    /\ recipes # EmptyDict
    /\ \E t1, t2 \in DOMAIN sessions :
        /\ t1 # t2
        /\ sessions[t1] = sessions[t2]
        /\ read_current_user(Store, Bearer(t1)).resp.status = 200
        /\ read_current_user(Store, Bearer(t2)).resp.status = 200
        /\ read_current_user(Store, Bearer(t1)).resp.body
               = read_current_user(Store, Bearer(t2)).resp.body

(***************************************************************************)
(* Updates of a recipe                                                     *)
(***************************************************************************)

\* Validated bodies of PATCH /recipes/{id}: every combination of a title,
\* steps and a list of known or unknown ingredients being there or not.
UpdateProbes ==
    [title : {None, Some(<<"S", "t", "e", "w">>)},
     steps : {None, Some(<<"F", "r", "y">>)},
     ingredients : {None, Some(<<RecipeIngredient(Item(2, <<"k", "g">>))>>),
                    Some(<<RecipeIngredient(Item(1, <<"g">>)), RecipeIngredient(Item(3, <<"g">>))>>)}]

\* The field of the updated recipe is the payload's when the payload has
\* one, and the stored one otherwise.
FieldAfter(sent, before, after) ==
    IF sent = None THEN after = before ELSE after = sent[1]

\* What update_recipe does now to each stored recipe, called by its owner
\* or by someone else: it is refused and the store stays, or the recipe
\* keeps its id and owner_id, takes the fields the payload has, keeps the
\* others, and every other recipe stays.
UpdateKeepsIdentity ==
    \A id \in DOMAIN recipes, owner_id \in 1..2, payload \in UpdateProbes :
        \E r \in {store_update_recipe(Store, id, owner_id, payload)} :
            IF r.resp.status = 200
                THEN /\ owner_id = recipes[id].owner_id
                     /\ DOMAIN r.st.recipes = DOMAIN recipes
                     /\ \A other \in DOMAIN recipes \ {id} : r.st.recipes[other] = recipes[other]
                     /\ r.st.recipes[id].id = id
                     /\ r.st.recipes[id].owner_id = recipes[id].owner_id
                     /\ FieldAfter(payload.title, recipes[id].title, r.st.recipes[id].title)
                     /\ FieldAfter(payload.steps, recipes[id].steps, r.st.recipes[id].steps)
                     /\ FieldAfter(payload.ingredients, recipes[id].ingredients,
                                   r.st.recipes[id].ingredients)
                     /\ r.resp.body = r.st.recipes[id]
                ELSE r.st = Store

\* Every recipe is stored under its own id.
StoredUnderOwnId == \A id \in DOMAIN recipes : recipes[id].id = id

\* One request: a recipe that is stored before and after has the owner_id
\* and the id it had, and a new recipe takes an id above every earlier one.
RecipeIdentityStep ==
    /\ \A id \in DOMAIN recipes \cap DOMAIN recipes' :
        /\ recipes'[id].owner_id = recipes[id].owner_id
        /\ recipes'[id].id = recipes[id].id
    /\ \A id \in DOMAIN recipes' \ DOMAIN recipes : id = recipe_seq /\ recipe_seq' = id + 1

\* C21: a recipe's id and owner_id never change after creation: whatever
\* update_recipe calls follow, by the owner or anyone else, with any
\* combination of title, steps and ingredients, the recipe stored under the
\* id has the owner_id it was created with, and the fields the payload
\* leaves out keep their values.
RecipeIdentityFixed ==
    /\ [](StoredUnderOwnId /\ UpdateKeepsIdentity)
    /\ [][RecipeIdentityStep]_vars

\* C21 witness: a recipe has been given a new title by its owner, its steps
\* are those it was created with, and an update by the other user is
\* answered 404.
RetitledByOwner ==
    \E id \in DOMAIN recipes, other \in 1..2 :
        /\ recipes[id].title = <<"S", "t", "e", "w">>
        /\ recipes[id].steps = <<"B", "o", "i", "l">>
        /\ other # recipes[id].owner_id
        /\ other \in DOMAIN users
        /\ \A payload \in UpdateProbes :
            store_update_recipe(Store, id, other, payload).resp.status = 404

(***************************************************************************)
(* State machine: reset of the durable backend beside writers              *)
(***************************************************************************)

\* Two deployed backends with prefixes of their own.
RacingBackends ==
    { [kind |-> "redis", prefix |-> PrefixApp, ttl |-> 2],
      [kind |-> "redis", prefix |-> <<"w", "e", "b">>, ttl |-> 1] }

InitRace ==
    /\ users = EmptyDict
    /\ users_by_email = EmptyDict
    /\ sessions = EmptyDict
    /\ user_seq = 1
    /\ ingredients = EmptyDict
    /\ ingredients_by_name = EmptyDict
    /\ ingredient_seq = 1
    /\ recipes = EmptyDict
    /\ recipe_seq = 1
    /\ issued = {}
    /\ retired = {}
    /\ threads = [t \in Threads |-> IdleThread]
    /\ call = NoCall
    /\ redis = [up |-> TRUE, data |-> EmptyDict]
    /\ clock = 0
    /\ backends = RacingBackends
    /\ last_store = EmptyDict

\* A reset has listed its keys and has not deleted them yet.
ResetInFlight == call.fn = "reset" /\ ~call.done

\* reset() runs up to the end of its scan: the listed keys are with the call.
ResetScan ==
    /\ ~ResetInFlight
    /\ \E self \in backends :
        \E r \in {reset_scan(self, redis, clock)} :
            /\ r.raises = None
            /\ call' = [fn |-> "reset", self |-> self, keys |-> r.value, written |-> EmptyDict,
                        done |-> FALSE]
    /\ UNCHANGED <<users, users_by_email, sessions, user_seq, ingredients,
                   ingredients_by_name, ingredient_seq, recipes, recipe_seq,
                   issued, retired, threads, redis, clock, backends, last_store>>

\* reset() runs from its scan to its end: the listed keys are deleted.
ResetDelete ==
    /\ ResetInFlight
    /\ \E r \in {reset_delete(call.self, redis, call.keys, clock)} :
        /\ redis' = [redis EXCEPT !.data = r.data]
    /\ call' = [call EXCEPT !.done = TRUE]
    /\ UNCHANGED <<users, users_by_email, sessions, user_seq, ingredients,
                   ingredients_by_name, ingredient_seq, recipes, recipe_seq,
                   issued, retired, threads, clock, backends, last_store>>

\* backend.store_token(token, 12) in another thread; a reset in flight has
\* the key and the user_id noted as written since its scan.
StoreTokenBeside ==
    \E self \in backends, token \in SessionTokens, user_id \in {12} :
        \E r \in {store_token(self, redis, token, user_id, clock)} :
            /\ redis' = [redis EXCEPT !.data = r.data]
            /\ call' = IF ResetInFlight
                           THEN [call EXCEPT !.written = Put(@, _key(self, token), user_id)]
                           ELSE call
            /\ UNCHANGED <<users, users_by_email, sessions, user_seq, ingredients,
                           ingredients_by_name, ingredient_seq, recipes, recipe_seq,
                           issued, retired, threads, clock, backends, last_store>>

NextRace ==
    \/ ResetScan
    \/ StoreTokenBeside
    \/ ResolveToken
    \/ ResetDelete
    \/ Tick

SpecRace == InitRace /\ [][NextRace]_vars

\* A reset comes to its end in this step.
ResetEnds == ResetInFlight /\ call'.fn = "reset" /\ call'.done

\* The keys written since the scan that the scan had not listed and that
\* have not expired.
StrayKeys == (DOMAIN call.written \ call.keys) \cap LiveKeys(redis.data, clock)

\* With no write since its scan, the two halves of reset do what reset does.
HalvesMakeReset ==
    \A self \in backends :
        reset_delete(self, redis, reset_scan(self, redis, clock).value, clock)
            = backend_reset(self, redis, clock)

\* C22: reset lists the keys under its prefix and then deletes them. When it
\* ends, every key it had listed is gone, also one written again since;
\* a key that store_token wrote since the scan and that the scan had not
\* listed is still there and resolves to the user_id stored.
ResetIsNotAtomic ==
    /\ []HalvesMakeReset
    /\ [][ResetEnds =>
            /\ \A k \in call.keys : k \notin DOMAIN redis'.data
            /\ \A k \in StrayKeys : k \in DOMAIN redis'.data /\ redis'.data[k] = redis.data[k]
            /\ \A self \in backends, token \in SessionTokens :
                _key(self, token) \in StrayKeys =>
                    resolve_token(self, redis', token, clock')
                        = Done(redis'.data, Some(call.written[_key(self, token)]))
         ]_vars

\* C22 witness: a reset that had listed a key has ended; the key is gone,
\* and a key under the same prefix written since its scan resolves.
StraySessionAfterReset ==
    /\ call.fn = "reset"
    /\ call.done
    /\ call.keys # {}
    /\ call.keys \cap DOMAIN redis.data = {}
    /\ \E token \in SessionTokens :
        /\ _key(call.self, token) \in DOMAIN call.written \ call.keys
        /\ resolve_token(call.self, redis, token, clock).value # None
        /\ GlobMatch(call.self.prefix \o <<":", "*">>, _key(call.self, token))

(***************************************************************************)
(* Sessions, the email index and the user records                          *)
(***************************************************************************)

\* Every session is bound to a stored user.
SessionsPointAtUsers == \A t \in DOMAIN sessions : sessions[t] \in DOMAIN users

\* Each indexed email points to a record carrying that email, and each
\* record is indexed under its email and stored under its id.
IndexAgreesWithRecords ==
    /\ \A email \in DOMAIN users_by_email :
        /\ users_by_email[email] \in DOMAIN users
        /\ users[users_by_email[email]].email = email
    /\ \A id \in DOMAIN users :
        /\ users[id].id = id
        /\ users[id].email \in DOMAIN users_by_email
        /\ users_by_email[users[id].email] = id

\* A token that resolves gives its user: never 404 "User not found".
ResolvedUserIsFound ==
    \A t \in DOMAIN sessions :
        /\ get_user(Store, sessions[t]).ok
        /\ get_user_by_token(Store, t).ok
        /\ \E r \in {read_current_user(Store, Bearer(t))} :
            /\ r.resp.status = 200
            /\ r.resp.body = UserPublic(sessions[t], users[sessions[t]].email)

\* C23: in every state reached by register, login, resolve, ingredient and
\* recipe operations and reset, one request at a time, every token of the
\* session mapping is bound to a user_id of the user directory, the email
\* index and the user records agree, and resolving the current user with a
\* token of the mapping never ends in NotFound.
SessionsAndIndexConsistent ==
    /\ SessionsPointAtUsers
    /\ IndexAgreesWithRecords
    /\ ResolvedUserIsFound

\* C23 witness: after a reset that retired a session two users registered
\* again, the second of them holds a session, and that user stored a recipe.
TwoUsersRegisteredAfterReset ==
    /\ retired # {}
    /\ Cardinality(DOMAIN users) = 2
    /\ Cardinality(DOMAIN users_by_email) = 2
    /\ \E t \in DOMAIN sessions, id \in DOMAIN recipes :
        /\ sessions[t] = 2
        /\ recipes[id].owner_id = 2

====
